---- MODULE Spec2Model ----
(***************************************************************************)
(* A model of magnetic-solitons-1d: the spin-chain engine                   *)
(* (scripts/core/llg_engine.py) with calculate_B_eff, find_ground_state    *)
(* and llg_rhs, each translated line by line over a small heap of numpy    *)
(* buffers, so that in-place updates and views are visible; the mobility   *)
(* sweep (runners/run_mobility_scan.py); the kinematics analysis           *)
(* (analysis/calculate_mobility.py, analysis/extract_velocity.py,          *)
(* visualization/plot_methodology.py); the phase classifier                *)
(* (core/phase_diagram.py); and the installation test                      *)
(* (tests/test_installation.py) with the imports it resolves.              *)
(*                                                                         *)
(* Numbers.  A float is a fixed-point integer in units of 1/Scale.  Sums,  *)
(* differences and products by the whole-number couplings are exact.  The  *)
(* division by a norm is rounded to the nearest grid value (DivSqrt), and  *)
(* so is the product of the two Gaussian profiles of the pulse.  0/0 is    *)
(* NaN; a site that holds a NaN is the vector NaNVec, at the granularity   *)
(* of a site (the code can keep finite x, y in the field of a site whose   *)
(* own spin is NaN; that spin stays NaN either way).                       *)
(*                                                                         *)
(* Units by program point.  Spins and external fields are in 1/Scale.      *)
(* In find_ground_state, between line 52 and line 53, S is in              *)
(* 1/(Scale*dt_den), where dt_relax = dt_num/dt_den.  In llg_rhs the       *)
(* derivative arrays are in 1/Scale^3 and norms holds the squared norms    *)
(* (the square root is taken, once, inside the division of line 74).       *)
(***************************************************************************)
EXTENDS Integers, Sequences, FiniteSets, TLC

VARIABLES
    pc,     \* the line the running function is at
    heap,   \* numpy data buffers: buffer id -> contents (<<>> when unallocated)
    env,    \* arguments and local names: name -> buffer id or scalar
    ret,    \* the values returned so far, one per completed call
    ghost   \* history for the claims: the arguments as they were at entry

vars == <<pc, heap, env, ret, ghost>>

(***************************************************************************)
(* Bounds of the model.                                                    *)
(***************************************************************************)
Scale == 20
MaxN == 3

(***************************************************************************)
(* Arithmetic.                                                             *)
(***************************************************************************)
Abs(a) == IF a < 0 THEN -a ELSE a

Sgn(a) == IF a < 0 THEN -1 ELSE IF a > 0 THEN 1 ELSE 0

NaNVec == <<>>

IsNaN(v) == Len(v) = 0

ZeroVec == <<0, 0, 0>>

VAdd(a, b) ==
    IF IsNaN(a) \/ IsNaN(b) THEN NaNVec
    ELSE <<a[1] + b[1], a[2] + b[2], a[3] + b[3]>>

VSub(a, b) ==
    IF IsNaN(a) \/ IsNaN(b) THEN NaNVec
    ELSE <<a[1] - b[1], a[2] - b[2], a[3] - b[3]>>

VScale(k, a) ==
    IF IsNaN(a) THEN NaNVec ELSE <<k * a[1], k * a[2], k * a[3]>>

NormSq(a) == a[1] * a[1] + a[2] * a[2] + a[3] * a[3]

\* The integer square root: the largest r with r * r <= n, by bisection on lo..hi.
RECURSIVE ISqrtIn(_, _, _)
ISqrtIn(n, lo, hi) ==
    IF lo >= hi THEN lo
    ELSE LET mid == (lo + hi + 1) \div 2
         IN  IF mid * mid <= n THEN ISqrtIn(n, mid, hi) ELSE ISqrtIn(n, lo, mid - 1)

\* (46340 is the largest r whose square fits the 32-bit integers of the checker)
ISqrt(n) == ISqrtIn(n, 0, IF n < 46340 THEN n ELSE 46340)

\* c / sqrt(q) in grid units, rounded to the nearest grid value (q > 0):
\* floor(Scale*|c|/sqrt(q) + 1/2) = (floor(sqrt(4*Scale^2*c^2/q)) + 1) div 2.
DivSqrt(c, q) ==
    Sgn(c) * ((ISqrt((4 * Scale * Scale * c * c) \div q) + 1) \div 2)

\* v / norm for one site, norm = sqrt(q): IEEE gives NaN for 0/0.
VDivNorm(v, q) ==
    IF IsNaN(v) THEN NaNVec
    ELSE IF q = 0 THEN NaNVec
    ELSE <<DivSqrt(v[1], q), DivSqrt(v[2], q), DivSqrt(v[3], q)>>

(***************************************************************************)
(* numpy array operations on (N, 3) arrays, sequences of N site vectors.   *)
(***************************************************************************)
\* The bug of an open chain: the rows shifted past an end repeat the end row.
roll_noWrap(A, k) ==
    [i \in 1..Len(A) |->
        A[IF i - k < 1 THEN 1 ELSE IF i - k > Len(A) THEN Len(A) ELSE i - k]]

\* np.roll(A, k, axis=0): row i of the result is row (i - k) mod N of A.
roll(A, k) ==
    [i \in 1..Len(A) |-> A[((i - 1 - k) % Len(A)) + 1]]

zeros_like(A) == [i \in 1..Len(A) |-> ZeroVec]

\* A[:, c] = vals[:], in place on the contents of one buffer.
SetColumn(A, c, vals) ==
    [i \in 1..Len(A) |->
        IF IsNaN(A[i]) \/ IsNaN(vals[i]) THEN NaNVec
        ELSE [A[i] EXCEPT ![c] = vals[i][1]]]

ArrAdd(A, B) == [i \in 1..Len(A) |-> VAdd(A[i], B[i])]

ArrSub(A, B) == [i \in 1..Len(A) |-> VSub(A[i], B[i])]

ArrScale(k, A) == [i \in 1..Len(A) |-> VScale(k, A[i])]

\* A + h_external, h_external an (N, 3) array or a scalar broadcast to every entry.
AddExternal(A, h) ==
    IF h.scalar
    THEN [i \in 1..Len(A) |-> VAdd(A[i], <<h.v, h.v, h.v>>)]
    ELSE ArrAdd(A, h.v)

(***************************************************************************)
(* calculate_B_eff, line by line as values.                                *)
(***************************************************************************)
\* line 19
Heisenberg(J, s_prev, s_next) == ArrScale(J, ArrAdd(s_prev, s_next))

\* line 25: the values written to column 0 of b_dmi
DmiColumn0(D, diff) ==
    [i \in 1..Len(diff) |-> IF IsNaN(diff[i]) THEN NaNVec ELSE <<(-D) * diff[i][2]>>]

\* The bug of the same sign in both DMI components.
DmiColumn1_sameSign(D, diff) ==
    [i \in 1..Len(diff) |-> IF IsNaN(diff[i]) THEN NaNVec ELSE <<(-D) * diff[i][1]>>]

\* line 26: the values written to column 1 of b_dmi
DmiColumn1(D, diff) ==
    [i \in 1..Len(diff) |-> IF IsNaN(diff[i]) THEN NaNVec ELSE <<D * diff[i][1]>>]

\* The bug of indexing one site, S[0, 2], for S[:, 2].
AnisotropyColumn2_firstSite(Da, S) ==
    [i \in 1..Len(S) |-> IF IsNaN(S[1]) THEN NaNVec ELSE <<(-2) * Da * S[1][3]>>]

\* line 30: the values written to column 2 of b_anisotropy
AnisotropyColumn2(Da, S) ==
    [i \in 1..Len(S) |-> IF IsNaN(S[i]) THEN NaNVec ELSE <<(-2) * Da * S[i][3]>>]

\* The whole function as a value, for the callers that use its result.
calculate_B_eff(S, J, D, Da, h_external) ==
    LET s_next == roll(S, -1)
        s_prev == roll(S, 1)
        b_heisenberg == Heisenberg(J, s_prev, s_next)
        diff == ArrSub(s_next, s_prev)
        b_dmi == SetColumn(SetColumn(zeros_like(S), 1, DmiColumn0(D, diff)),
                           2, DmiColumn1(D, diff))
        b_anisotropy == SetColumn(zeros_like(S), 3, AnisotropyColumn2(Da, S))
    IN  AddExternal(ArrAdd(ArrAdd(b_heisenberg, b_dmi), b_anisotropy), h_external)

(***************************************************************************)
(* calculate_B_eff, line by line over the heap.  The caller calls it       *)
(* Calls times on the same argument buffers, as the loop of                *)
(* find_ground_state and the ODE stepper do.                               *)
(***************************************************************************)
Calls == 2

Couplings == {-1, 1}

DmiStrengths == {0, 1}

Anisotropies == {-1, 0}

SpinVecs ==
    { <<0, 0, Scale>>, <<Scale, 0, 0>>,
      <<0, (3 * Scale) \div 5, -((4 * Scale) \div 5)>> }

\* External fields: a uniform bias along z with a pulse along x at one site.
ExtArrays(N) ==
    { [i \in 1..N |-> IF i = j THEN <<5, 0, -2>> ELSE <<0, 0, -2>>] : j \in 1..N }

BeffBuffers ==
    {"S", "h_external", "s_next", "s_prev", "b_heisenberg", "diff", "b_dmi",
     "b_anisotropy"}

BeffLocals == BeffBuffers \ {"S", "h_external"}

\* The h_external argument as the value calculate_B_eff sees.
BeffExternal == [scalar |-> env.h_scalar, v |-> IF env.h_scalar THEN 0 ELSE heap[env.h_external]]

BeffInit ==
    \E N \in 1..MaxN :
      \E S \in [1..N -> SpinVecs], J \in Couplings, D \in DmiStrengths, Da \in Anisotropies :
        \E h_scalar \in BOOLEAN :
          \E H \in (IF h_scalar THEN {<<>>} ELSE ExtArrays(N)) :
            /\ pc = "B15"
            /\ heap = [b \in BeffBuffers |->
                         IF b = "S" THEN S ELSE IF b = "h_external" THEN H ELSE <<>>]
            /\ env = [N |-> N, J |-> J, D |-> D, Da |-> Da, call |-> 1,
                      S |-> "S", h_external |-> "h_external", h_scalar |-> h_scalar,
                      s_next |-> "", s_prev |-> "", b_heisenberg |-> "", diff |-> "",
                      b_dmi |-> "", b_anisotropy |-> ""]
            /\ ret = <<>>
            /\ ghost = [S |-> S, h_external |-> [scalar |-> h_scalar, v |-> IF h_scalar THEN 0 ELSE H]]

\* name = <a new array holding val>
BindNew(name, val, next) ==
    /\ heap' = [heap EXCEPT ![name] = val]
    /\ env' = [env EXCEPT ![name] = name]
    /\ pc' = next
    /\ UNCHANGED <<ret, ghost>>

\* an in-place write through the name `name`
WriteThrough(name, val, next) ==
    /\ heap' = [heap EXCEPT ![env[name]] = val]
    /\ pc' = next
    /\ UNCHANGED <<env, ret, ghost>>

CalcBeff_L15 ==
    /\ pc = "B15"
    /\ BindNew("s_next", roll(heap[env.S], -1), "B16")

CalcBeff_L16 ==
    /\ pc = "B16"
    /\ BindNew("s_prev", roll(heap[env.S], 1), "B19")

CalcBeff_L19 ==
    /\ pc = "B19"
    /\ BindNew("b_heisenberg", Heisenberg(env.J, heap[env.s_prev], heap[env.s_next]), "B23")

CalcBeff_L23 ==
    /\ pc = "B23"
    /\ BindNew("diff", ArrSub(heap[env.s_next], heap[env.s_prev]), "B24")

\* The bug of binding the name to the argument's buffer instead of a new array.
CalcBeff_L24_alias ==
    /\ pc = "B24"
    /\ env' = [env EXCEPT !.b_dmi = env.S]
    /\ pc' = "B25"
    /\ UNCHANGED <<heap, ret, ghost>>

CalcBeff_L24 ==
    /\ pc = "B24"
    /\ BindNew("b_dmi", zeros_like(heap[env.S]), "B25")

CalcBeff_L25 ==
    /\ pc = "B25"
    /\ WriteThrough("b_dmi", SetColumn(heap[env.b_dmi], 1, DmiColumn0(env.D, heap[env.diff])), "B26")

CalcBeff_L26 ==
    /\ pc = "B26"
    /\ WriteThrough("b_dmi", SetColumn(heap[env.b_dmi], 2, DmiColumn1(env.D, heap[env.diff])), "B29")

CalcBeff_L29 ==
    /\ pc = "B29"
    /\ BindNew("b_anisotropy", zeros_like(heap[env.S]), "B30")

CalcBeff_L30 ==
    /\ pc = "B30"
    /\ WriteThrough("b_anisotropy",
                    SetColumn(heap[env.b_anisotropy], 3, AnisotropyColumn2(env.Da, heap[env.S])),
                    "B33")

\* return: the sum is a new array; the locals go out of scope.
CalcBeff_L33 ==
    /\ pc = "B33"
    /\ ret' = Append(ret, AddExternal(ArrAdd(ArrAdd(heap[env.b_heisenberg], heap[env.b_dmi]),
                                             heap[env.b_anisotropy]),
                                      BeffExternal))
    /\ heap' = [b \in BeffBuffers |-> IF b \in BeffLocals THEN <<>> ELSE heap[b]]
    /\ env' = [n \in DOMAIN env |->
                 IF n \in BeffLocals THEN ""
                 ELSE IF n = "call" THEN env.call + 1 ELSE env[n]]
    /\ pc' = IF env.call < Calls THEN "B15" ELSE "done"
    /\ UNCHANGED ghost

BeffNext ==
    \/ CalcBeff_L15
    \/ CalcBeff_L16
    \/ CalcBeff_L19
    \/ CalcBeff_L23
    \/ CalcBeff_L24
    \/ CalcBeff_L25
    \/ CalcBeff_L26
    \/ CalcBeff_L29
    \/ CalcBeff_L30
    \/ CalcBeff_L33

SpecBeff == BeffInit /\ [][BeffNext]_vars

\* The line-by-line run returns the value of the operator (a check of the model).
BeffStepsAgree ==
    \A c \in 1..Len(ret) :
        ret[c] = calculate_B_eff(ghost.S, env.J, env.D, env.Da, ghost.h_external)

(***************************************************************************)
(* Claims about calculate_B_eff.                                           *)
(***************************************************************************)
\* The neighbour of site i at distance d on the ring of N sites (sites 1..N).
Ring(i, d, N) == ((i - 1 + d) % N) + 1

ExtAt(h, i) == IF h.scalar THEN <<h.v, h.v, h.v>> ELSE h.v[i]

\* The field the contract prescribes at site i.
ContractField(S, J, D, Da, h, i) ==
    LET N == Len(S)
        p == S[Ring(i, -1, N)]
        n == S[Ring(i, 1, N)]
    IN  << J * (p[1] + n[1]) - D * (n[2] - p[2]) + ExtAt(h, i)[1],
           J * (p[2] + n[2]) + D * (n[1] - p[1]) + ExtAt(h, i)[2],
           J * (p[3] + n[3]) - 2 * Da * S[i][3] + ExtAt(h, i)[3] >>

\* C1: every call of calculate_B_eff returns, at every site i,
\* J*(S[i-1]+S[i+1]) + (-D*(S[i+1].y-S[i-1].y), D*(S[i+1].x-S[i-1].x), 0)
\* + (0,0,-2*Da*S[i].z) + H_ext[i], with the neighbour indices taken modulo N.
C1_FieldFormula ==
    pc \in {"B15", "done"} => \A c \in 1..Len(ret) :
        /\ Len(ret[c]) = env.N
        /\ \A i \in 1..env.N :
             ret[c][i] = ContractField(ghost.S, env.J, env.D, env.Da, ghost.h_external, i)

\* A call has returned for a chain where the wrap-around matters: the two
\* neighbours of a boundary site differ, and D is not zero.
C1_Witness ==
    /\ Len(ret) >= 1
    /\ env.N = MaxN
    /\ env.D # 0
    /\ ghost.S[env.N] # ghost.S[2]
    /\ ~ghost.h_external.scalar

RollExternal(h, k) == IF h.scalar THEN h ELSE [scalar |-> FALSE, v |-> roll(h.v, k)]

\* C2: calculate_B_eff commutes with cyclic relabeling: the field of the
\* configuration and external field rotated by k sites is the returned field
\* rotated by k sites, for every shift k.
C2_TranslationInvariant ==
    pc \in {"B15", "done"} => \A c \in 1..Len(ret) :
        \A k \in 0..(env.N - 1) :
            calculate_B_eff(roll(ghost.S, k), env.J, env.D, env.Da,
                            RollExternal(ghost.h_external, k))
              = roll(ret[c], k)

\* A call has returned for a configuration that a rotation by one site changes.
C2_Witness ==
    /\ Len(ret) >= 1
    /\ env.N >= 3
    /\ roll(ghost.S, 1) # ghost.S
    /\ ~ghost.h_external.scalar
    /\ roll(ghost.h_external.v, 1) # ghost.h_external.v

\* C3: a call leaves S and h_external as they were at entry, and calls with
\* equal arguments return equal fields.
C3_NoSideEffects ==
    /\ heap[env.S] = ghost.S
    /\ ~env.h_scalar => heap[env.h_external] = ghost.h_external.v
    /\ \A c, d \in 1..Len(ret) : ret[c] = ret[d]

\* Two calls on the same arguments have returned.
C3_Witness ==
    /\ pc = "done"
    /\ Len(ret) = Calls
    /\ env.D # 0
    /\ ~env.h_scalar

(***************************************************************************)
(* find_ground_state, line by line over the heap.                          *)
(***************************************************************************)
CheckEvery == 500

\* rand(N, 3) - 0.5: components in [-Scale/2, Scale/2), never all zero here.
RawSeeds ==
    { <<0, 0, Scale \div 4>>, <<Scale \div 4, Scale \div 4, 0>> }

\* dt_relax = dt_num / dt_den
RelaxSteps == { <<1, 2>>, <<1, 20>> }

\* tolerance, in grid units
Tolerances == {0, 1}

StepBudgets == {0, 1, CheckEvery + 1}

GSBuffers == {"S", "B_eff", "S_old"}

\* S / np.linalg.norm(S, axis=1, keepdims=True), site by site
NormalizeRows(A) ==
    [i \in 1..Len(A) |-> IF IsNaN(A[i]) THEN NaNVec ELSE VDivNorm(A[i], NormSq(A[i]))]

\* np.max(np.abs(A - B)): NaN when any entry is NaN
SetMax(T) == CHOOSE m \in T : \A x \in T : x <= m

MaxAbsDiff(A, B) ==
    IF \E i \in 1..Len(A) : IsNaN(A[i]) \/ IsNaN(B[i])
    THEN [nan |-> TRUE, v |-> 0]
    ELSE [nan |-> FALSE,
          v |-> SetMax({Abs(A[i][c] - B[i][c]) : i \in 1..Len(A), c \in 1..3})]

\* change < tolerance: a comparison with NaN is False
Below(change, tolerance) == ~change.nan /\ change.v < tolerance

GSInit ==
    \E N \in 1..MaxN :
      \E raw \in [1..N -> RawSeeds], J \in Couplings, D \in DmiStrengths, Da \in Anisotropies :
        \E dt \in RelaxSteps, tol \in Tolerances, max_steps \in StepBudgets :
            /\ pc = "G42"
            /\ heap = [b \in GSBuffers |-> IF b = "S" THEN raw ELSE <<>>]
            /\ env = [N |-> N, J |-> J, D |-> D, Da |-> Da, max_steps |-> max_steps,
                      tolerance |-> tol, dt_num |-> dt[1], dt_den |-> dt[2], step |-> 0,
                      S |-> "S", B_eff |-> "", S_old |-> ""]
            /\ ret = <<>>
            /\ ghost = [seed |-> <<>>, prev |-> <<>>, ckpt |-> <<>>, last |-> <<>>,
                        updates |-> 0]

\* line 42: S /= np.linalg.norm(S, axis=1, keepdims=True)
FindGS_L42 ==
    /\ pc = "G42"
    /\ heap' = [heap EXCEPT ![env.S] = NormalizeRows(heap[env.S])]
    /\ ghost' = [ghost EXCEPT !.seed = heap'[env.S], !.ckpt = heap'[env.S],
                              !.last = heap'[env.S]]
    /\ pc' = "G44"
    /\ UNCHANGED <<env, ret>>

\* The bug of running the loop once more than max_steps.
FindGS_L44_offByOne ==
    /\ pc = "G44"
    /\ env.step <= env.max_steps
    /\ pc' = "G46"
    /\ ghost' = [ghost EXCEPT !.prev = heap[env.S]]
    /\ UNCHANGED <<heap, env, ret>>

\* line 44: for step in range(max_steps), the loop entered
FindGS_L44 ==
    /\ pc = "G44"
    /\ env.step < env.max_steps
    /\ pc' = "G46"
    /\ ghost' = [ghost EXCEPT !.prev = heap[env.S]]
    /\ UNCHANGED <<heap, env, ret>>

\* line 63: the loop is exhausted, return S
FindGS_L63 ==
    /\ pc = "G44"
    /\ env.step >= env.max_steps
    /\ ret' = Append(ret, heap[env.S])
    /\ pc' = "R63"
    /\ UNCHANGED <<heap, env, ghost>>

\* line 46: B_eff = calculate_B_eff(S, J, D, Da, h_external=0)
FindGS_L46 ==
    /\ pc = "G46"
    /\ BindNew("B_eff",
               calculate_B_eff(heap[env.S], env.J, env.D, env.Da, [scalar |-> TRUE, v |-> 0]),
               "G48")

\* The bug of keeping a second name for S instead of a copy of it.
FindGS_L48_alias ==
    /\ pc = "G48"
    /\ env' = [env EXCEPT !.S_old = env.S]
    /\ pc' = "G52"
    /\ UNCHANGED <<heap, ret, ghost>>

\* line 48: S_old = S.copy()
FindGS_L48 ==
    /\ pc = "G48"
    /\ BindNew("S_old", heap[env.S], "G52")

\* The bug of stepping against the field: S -= dt_relax * B_eff.
FindGS_L52_minus ==
    /\ pc = "G52"
    /\ WriteThrough("S",
                    ArrSub(ArrScale(env.dt_den, heap[env.S]),
                           ArrScale(env.dt_num, heap[env.B_eff])),
                    "G53")

\* The bug of writing = for +=.
FindGS_L52_assign ==
    /\ pc = "G52"
    /\ WriteThrough("S", ArrScale(env.dt_num, heap[env.B_eff]), "G53")

\* line 52: S += dt_relax * B_eff, in place (the result in units of 1/(Scale*dt_den))
FindGS_L52 ==
    /\ pc = "G52"
    /\ WriteThrough("S",
                    ArrAdd(ArrScale(env.dt_den, heap[env.S]),
                           ArrScale(env.dt_num, heap[env.B_eff])),
                    "G53")

\* The bug of leaving out the renormalization after the step.
FindGS_L53_noNormalize ==
    /\ pc = "G53"
    /\ ghost' = [ghost EXCEPT !.updates = ghost.updates + 1, !.last = heap[env.S]]
    /\ pc' = "G56"
    /\ UNCHANGED <<heap, env, ret>>

\* line 53: S /= np.linalg.norm(S, axis=1, keepdims=True), in place
FindGS_L53 ==
    /\ pc = "G53"
    /\ heap' = [heap EXCEPT ![env.S] = NormalizeRows(heap[env.S])]
    /\ ghost' = [ghost EXCEPT !.updates = ghost.updates + 1, !.last = heap'[env.S]]
    /\ pc' = "G56"
    /\ UNCHANGED <<env, ret>>

\* line 56: not a checkpoint, on to the next step
FindGS_L56_skip ==
    /\ pc = "G56"
    /\ env.step % CheckEvery # 0
    /\ env' = [env EXCEPT !.step = env.step + 1]
    /\ pc' = "G44"
    /\ UNCHANGED <<heap, ret, ghost>>

\* lines 56-60: a checkpoint whose change is below the tolerance, return S
FindGS_L60 ==
    /\ pc = "G56"
    /\ env.step % CheckEvery = 0
    /\ Below(MaxAbsDiff(heap[env.S], heap[env.S_old]), env.tolerance)
    /\ ret' = Append(ret, heap[env.S])
    /\ pc' = "R60"
    /\ UNCHANGED <<heap, env, ghost>>

\* lines 56-58: a checkpoint whose change is not below the tolerance
FindGS_L58_continue ==
    /\ pc = "G56"
    /\ env.step % CheckEvery = 0
    /\ ~Below(MaxAbsDiff(heap[env.S], heap[env.S_old]), env.tolerance)
    /\ env' = [env EXCEPT !.step = env.step + 1]
    /\ ghost' = [ghost EXCEPT !.ckpt = heap[env.S]]
    /\ pc' = "G44"
    /\ UNCHANGED <<heap, ret>>

GSNext ==
    \/ FindGS_L42
    \/ FindGS_L44
    \/ FindGS_L63
    \/ FindGS_L46
    \/ FindGS_L48
    \/ FindGS_L52
    \/ FindGS_L53
    \/ FindGS_L56_skip
    \/ FindGS_L60
    \/ FindGS_L58_continue

SpecGS == GSInit /\ [][GSNext]_vars

GSReturned == pc \in {"R60", "R63"}

(***************************************************************************)
(* Claims about find_ground_state.                                         *)
(***************************************************************************)
ZeroField == [scalar |-> TRUE, v |-> 0]

\* C5 (as amended): the solver returns early exactly at a step whose index is a
\* multiple of 500 (0, 500, ...) at which the largest per-component change made
\* by that one update step (against the configuration just before the update)
\* is below the tolerance; it never returns early at any other step.
C5_CheckpointRule ==
    /\ pc = "R60" =>
         /\ env.step % CheckEvery = 0
         /\ Below(MaxAbsDiff(heap[env.S], ghost.prev), env.tolerance)
    /\ (pc = "G44" /\ env.step > 0 /\ (env.step - 1) % CheckEvery = 0) =>
         ~Below(MaxAbsDiff(heap[env.S], ghost.prev), env.tolerance)

\* An early return at the second checkpoint, step 500, of a run that moved
\* since the first checkpoint.
C5_Witness ==
    /\ pc = "R60"
    /\ env.step = CheckEvery
    /\ ghost.ckpt # heap[env.S]

\* C5 as stated: at a checkpoint the change is measured since the last
\* checkpoint (the configuration 500 steps earlier; the seed before the first),
\* and the solver returns early exactly when that change is below the tolerance.
C5_SinceLastCheckpoint ==
    [][ pc = "G56" =>
          ((pc' = "R60") <=>
             /\ env.step % CheckEvery = 0
             /\ Below(MaxAbsDiff(heap[env.S], ghost.ckpt), env.tolerance)) ]_vars

\* How far the run has got: it grows with every line executed.
GSProgress ==
    6 * env.step +
      (CASE pc = "G42" -> -1
         [] pc = "G44" -> 0
         [] pc = "G46" -> 1
         [] pc = "G48" -> 2
         [] pc = "G52" -> 3
         [] pc = "G53" -> 4
         [] pc = "G56" -> 5
         [] OTHER -> 6)

GSReturnState ==
    /\ ghost.updates <= env.max_steps
    /\ env.step <= env.max_steps
    /\ GSProgress <= 6 * env.max_steps + 6
    /\ GSReturned => Len(ret) = 1
    /\ pc = "R63" =>
         /\ ghost.updates = env.max_steps
         /\ ret[1] = ghost.last
    /\ (GSReturned /\ env.max_steps = 0) => (pc = "R63" /\ ret[1] = ghost.seed)

\* C6: find_ground_state terminates after at most max_steps update steps (every
\* line executed advances a bounded progress measure); when the loop is exhausted
\* it returns the configuration reached after the last step, the normalized seed
\* when max_steps = 0.
C6_Terminates ==
    /\ []GSReturnState
    /\ [][GSProgress' > GSProgress]_vars

\* The step budget was used up without any checkpoint meeting the tolerance.
C6_Witness ==
    /\ pc = "R63"
    /\ env.max_steps > CheckEvery
    /\ ghost.updates = env.max_steps
    /\ ghost.last # ghost.seed

\* A site vector of norm 1, to within the rounding of the grid.
UnitNorm(v) == ~IsNaN(v) /\ Abs(NormSq(v) - Scale * Scale) <= 2 * Scale

\* C7: every site vector has unit norm after the seed normalization and after
\* every update step, and so has the configuration returned.
C7_UnitNormAlways ==
    /\ pc \notin {"G42", "G53"} => \A i \in 1..env.N : UnitNorm(heap[env.S][i])
    /\ GSReturned => \A i \in 1..env.N : UnitNorm(ret[1][i])

\* Every site that is a number has unit norm (a check of the model's rounding).
GSFiniteSitesUnit ==
    pc \notin {"G42", "G53"} =>
        \A i \in 1..env.N : IsNaN(heap[env.S][i]) \/ UnitNorm(heap[env.S][i])

\* normalize(S[i] + dt_relax * B[i]) for the configuration `old`, B the field
\* of the contract at zero external field (NaN when 0/0 or a NaN is involved).
ExpectedUpdate(old, i) ==
    LET N == Len(old)
    IN  IF IsNaN(old[i]) \/ IsNaN(old[Ring(i, -1, N)]) \/ IsNaN(old[Ring(i, 1, N)])
        THEN NaNVec
        ELSE LET v == VAdd(VScale(env.dt_den, old[i]),
                           VScale(env.dt_num,
                                  ContractField(old, env.J, env.D, env.Da, ZeroField, i)))
             IN  VDivNorm(v, NormSq(v))

\* C8: after each update step every site holds normalize(S[i] + dt_relax*B_eff[i]),
\* with B_eff the zero-external-field effective field of the configuration
\* before the update, the same old configuration for all sites.
C8_UpdateRule ==
    pc = "G56" =>
        \A i \in 1..env.N : heap[env.S][i] = ExpectedUpdate(ghost.prev, i)

\* An update step has moved a chain whose sites have distinct neighbours.
C8_Witness ==
    /\ pc = "G56"
    /\ env.N = MaxN
    /\ env.D # 0
    /\ heap[env.S] # ghost.prev
    /\ \A i \in 1..env.N : ~IsNaN(heap[env.S][i])
    /\ ghost.prev[1] # ghost.prev[2]

(***************************************************************************)
(* The external field of the mobility sweep (run_mobility_scan.py).        *)
(***************************************************************************)
\* a / b rounded to the nearest integer (b > 0), halves away from zero
RoundDiv(a, b) == Sgn(a) * ((2 * Abs(a) + b) \div (2 * b))

\* exp(-k/2) in grid units, from its table to four decimals
ExpNegHalf(k) ==
    CASE k = 0 -> Scale
      [] k = 1 -> RoundDiv(Scale * 6065, 10000)
      [] k = 2 -> RoundDiv(Scale * 3679, 10000)
      [] k = 3 -> RoundDiv(Scale * 2231, 10000)
      [] k = 4 -> RoundDiv(Scale * 1353, 10000)
      [] k = 5 -> RoundDiv(Scale * 821, 10000)
      [] k = 6 -> RoundDiv(Scale * 498, 10000)
      [] k = 7 -> RoundDiv(Scale * 302, 10000)
      [] k = 8 -> RoundDiv(Scale * 183, 10000)
      [] k = 9 -> RoundDiv(Scale * 111, 10000)
      [] OTHER -> 0

\* np.exp(-(d**2) / (2 * w**2)), the exponent rounded to a multiple of 1/2
Gaussian(d, w) == ExpNegHalf(RoundDiv(d * d, w * w))

\* lines 38-48: the pulse along x; h0 is a whole number, the sites are 0..N-1
pulsed_field_generator(t, N, h0, t0, tau, i0, sigma) ==
    LET time_profile == h0 * Gaussian(t - t0, tau)
    IN  [i \in 1..N |->
           <<RoundDiv(time_profile * Gaussian((i - 1) - i0, sigma), Scale), 0, 0>>]

\* The bug of writing the bias to column 0, the axis of the pulse.
h_total_biasOnX(t, N, kwargs) ==
    LET p == kwargs.pulse_params
        h_pulse == pulsed_field_generator(t, N, p.h0, p.t0, p.tau, p.i0, p.sigma)
        h_dc_vec == SetColumn(zeros_like(h_pulse), 1, [i \in 1..N |-> <<kwargs.h_dc>>])
    IN  ArrAdd(h_pulse, h_dc_vec)

\* lines 50-60: the pulse plus the uniform bias along z
h_total(t, N, kwargs) ==
    LET p == kwargs.pulse_params
        h_pulse == pulsed_field_generator(t, N, p.h0, p.t0, p.tau, p.i0, p.sigma)
        h_dc_vec == SetColumn(zeros_like(h_pulse), 3, [i \in 1..N |-> <<kwargs.h_dc>>])
    IN  ArrAdd(h_pulse, h_dc_vec)

(***************************************************************************)
(* llg_rhs, line by line over the heap.  S_flat is a flat buffer of 3N     *)
(* numbers; S is the (N, 3) view of the same buffer.  The stepper          *)
(* evaluates the right-hand side Calls times on the state array it holds.  *)
(***************************************************************************)
\* flat.reshape((N, 3)), read through the view
Reshape(flat, N) ==
    [i \in 1..N |-> <<flat[3 * (i - 1) + 1], flat[3 * (i - 1) + 2], flat[3 * (i - 1) + 3]>>]

\* A.flatten(), also what a write through an (N, 3) view leaves in the flat buffer
Flatten(A) ==
    [k \in 1..(3 * Len(A)) |-> A[((k - 1) \div 3) + 1][((k - 1) % 3) + 1]]

\* np.cross(a, b) for one site
Cross(a, b) ==
    <<a[2] * b[3] - a[3] * b[2], a[3] * b[1] - a[1] * b[3], a[1] * b[2] - a[2] * b[1]>>

ArrCross(A, B) == [i \in 1..Len(A) |-> Cross(A[i], B[i])]

StateVecs ==
    { <<0, 0, 0>>, <<0, 0, Scale>>, <<Scale, -(Scale \div 2), Scale \div 4>> }

Alphas == {0, 1}

Gammas == {1, 2}

Times == {2, 3}

BiasFields == {-2}

RhsBuffers ==
    {"S_flat", "h_args", "norms", "h_ext", "B_eff", "precession_term", "damping_term", "dSdt"}

RhsLocals == {"S", "norms", "h_ext", "B_eff", "precession_term", "damping_term", "dSdt"}

RhsInit ==
    \E N \in 1..MaxN :
      \E S0 \in [1..N -> StateVecs], J \in Couplings, D \in DmiStrengths, Da \in Anisotropies :
        \E alpha \in Alphas, gamma \in Gammas, t \in Times, has_func \in BOOLEAN :
          \E h_dc \in (IF has_func THEN BiasFields ELSE {0}) :
            LET kwargs == [pulse_params |-> [h0 |-> -10, t0 |-> 2, tau |-> 1,
                                             i0 |-> N \div 2, sigma |-> 1],
                           h_dc |-> h_dc]
            IN  /\ pc = "R69"
                /\ heap = [b \in RhsBuffers |->
                             IF b = "S_flat" THEN Flatten(S0)
                             ELSE IF b = "h_args" /\ has_func THEN kwargs
                             ELSE <<>>]
                /\ env = [N |-> N, J |-> J, D |-> D, Da |-> Da, alpha |-> alpha,
                          gamma |-> gamma, t |-> t, call |-> 1,
                          S_flat |-> "S_flat", h_external_func |-> has_func,
                          h_args |-> "h_args", h_scalar |-> FALSE,
                          S |-> "", norms |-> "", h_ext |-> "", B_eff |-> "",
                          precession_term |-> "", damping_term |-> "", dSdt |-> ""]
                /\ ret = <<>>
                /\ ghost = [S_flat |-> Flatten(S0), S_in |-> Flatten(S0),
                            h_args |-> IF has_func THEN kwargs ELSE <<>>]

\* line 69: S = S_flat.reshape((N, 3)), a view of the buffer of S_flat
LlgRhs_L69 ==
    /\ pc = "R69"
    /\ env' = [env EXCEPT !.S = env.S_flat]
    /\ ghost' = [ghost EXCEPT !.S_in = heap[env.S_flat]]
    /\ pc' = "R72"
    /\ UNCHANGED <<heap, ret>>

\* The bug of leaving out axis=1: one norm for the whole array.
LlgRhs_L72_noAxis ==
    /\ pc = "R72"
    /\ BindNew("norms",
               LET rows == Reshape(heap[env.S], env.N)
                   RECURSIVE Total(_)
                   Total(i) == IF i = 0 THEN 0 ELSE NormSq(rows[i]) + Total(i - 1)
               IN  [i \in 1..env.N |-> Total(env.N)],
               "R73")

\* line 72: norms = np.linalg.norm(S, axis=1, keepdims=True), held squared
LlgRhs_L72 ==
    /\ pc = "R72"
    /\ BindNew("norms",
               LET rows == Reshape(heap[env.S], env.N)
               IN  [i \in 1..env.N |-> NormSq(rows[i])],
               "R73")

\* line 73: norms[norms == 0] = 1, in place (1.0 squared is Scale^2)
LlgRhs_L73 ==
    /\ pc = "R73"
    /\ WriteThrough("norms",
                    [i \in 1..env.N |->
                       IF heap[env.norms][i] = 0 THEN Scale * Scale ELSE heap[env.norms][i]],
                    "R74")

\* line 74: S /= norms, in place through the view
LlgRhs_L74 ==
    /\ pc = "R74"
    /\ WriteThrough("S",
                    LET rows == Reshape(heap[env.S], env.N)
                    IN  Flatten([i \in 1..env.N |-> VDivNorm(rows[i], heap[env.norms][i])]),
                    "R77")

\* lines 77-78: h_ext = h_external_func(t, N, **h_args)
LlgRhs_L78 ==
    /\ pc = "R77"
    /\ env.h_external_func
    /\ heap' = [heap EXCEPT !["h_ext"] = h_total(env.t, env.N, heap[env.h_args])]
    /\ env' = [env EXCEPT !.h_ext = "h_ext", !.h_scalar = FALSE]
    /\ pc' = "R82"
    /\ UNCHANGED <<ret, ghost>>

\* lines 79-80: h_ext = 0.0
LlgRhs_L80 ==
    /\ pc = "R77"
    /\ ~env.h_external_func
    /\ env' = [env EXCEPT !.h_scalar = TRUE]
    /\ pc' = "R82"
    /\ UNCHANGED <<heap, ret, ghost>>

\* line 82: B_eff = calculate_B_eff(S, J, D, Da, h_ext)
LlgRhs_L82 ==
    /\ pc = "R82"
    /\ BindNew("B_eff",
               calculate_B_eff(Reshape(heap[env.S], env.N), env.J, env.D, env.Da,
                               [scalar |-> env.h_scalar,
                                v |-> IF env.h_scalar THEN 0 ELSE heap[env.h_ext]]),
               "R85")

\* The bug of leaving out the cross product with S in the precession term.
LlgRhs_L85_noCross ==
    /\ pc = "R85"
    /\ BindNew("precession_term", ArrScale(-env.gamma * Scale, heap[env.B_eff]), "R86")

\* line 85: precession_term = -gamma * np.cross(S, B_eff), in units of 1/Scale^2
LlgRhs_L85 ==
    /\ pc = "R85"
    /\ BindNew("precession_term",
               ArrScale(-env.gamma, ArrCross(Reshape(heap[env.S], env.N), heap[env.B_eff])),
               "R86")

\* The bug of crossing in the other order in the double product.
LlgRhs_L86_swapped ==
    /\ pc = "R86"
    /\ BindNew("damping_term",
               LET S == Reshape(heap[env.S], env.N)
               IN  ArrScale(-env.alpha, ArrCross(ArrCross(S, heap[env.B_eff]), S)),
               "R88")

\* line 86: damping_term = -alpha * np.cross(S, np.cross(S, B_eff)), in 1/Scale^3
LlgRhs_L86 ==
    /\ pc = "R86"
    /\ BindNew("damping_term",
               LET S == Reshape(heap[env.S], env.N)
               IN  ArrScale(-env.alpha, ArrCross(S, ArrCross(S, heap[env.B_eff]))),
               "R88")

\* line 88: dSdt = precession_term + damping_term, in units of 1/Scale^3
LlgRhs_L88 ==
    /\ pc = "R88"
    /\ BindNew("dSdt",
               ArrAdd(ArrScale(Scale, heap[env.precession_term]), heap[env.damping_term]),
               "R90")

\* line 90: return dSdt.flatten(); the locals go out of scope
LlgRhs_L90 ==
    /\ pc = "R90"
    /\ ret' = Append(ret, Flatten(heap[env.dSdt]))
    /\ heap' = [b \in RhsBuffers |-> IF b \in RhsLocals THEN <<>> ELSE heap[b]]
    /\ env' = [n \in DOMAIN env |->
                 IF n \in RhsLocals THEN ""
                 ELSE IF n = "call" THEN env.call + 1 ELSE env[n]]
    /\ pc' = IF env.call < Calls THEN "R69" ELSE "done"
    /\ UNCHANGED ghost

RhsNext ==
    \/ LlgRhs_L69
    \/ LlgRhs_L72
    \/ LlgRhs_L73
    \/ LlgRhs_L74
    \/ LlgRhs_L78
    \/ LlgRhs_L80
    \/ LlgRhs_L82
    \/ LlgRhs_L85
    \/ LlgRhs_L86
    \/ LlgRhs_L88
    \/ LlgRhs_L90

SpecRhs == RhsInit /\ [][RhsNext]_vars

(***************************************************************************)
(* Claims about llg_rhs.                                                   *)
(***************************************************************************)
\* C4: a call of llg_rhs leaves the caller's state array S_flat unchanged, and
\* evaluations on the same state array return equal derivatives.
C4_RhsPure ==
    /\ heap[env.S_flat] = ghost.S_flat
    /\ \A c, d \in 1..Len(ret) : ret[c] = ret[d]

\* The site vector the contract works on: the entry vector at unit length, or
\* the zero vector where the entry vector is zero.
RenormalizedSite(flat, i) ==
    LET v == Reshape(flat, Len(flat) \div 3)[i]
    IN  IF v = ZeroVec THEN ZeroVec ELSE VDivNorm(v, NormSq(v))

RenormalizedState(flat) == [i \in 1..(Len(flat) \div 3) |-> RenormalizedSite(flat, i)]

\* The external field llg_rhs is given at time t.
SampledField(t) ==
    IF env.h_external_func
    THEN [scalar |-> FALSE, v |-> h_total(t, env.N, ghost.h_args)]
    ELSE ZeroField

\* -gamma*(s x b) - alpha*(s x (s x b)) for one site, in units of 1/Scale^3
ContractDerivative(s, b) ==
    LET sxb == <<s[2] * b[3] - s[3] * b[2], s[3] * b[1] - s[1] * b[3], s[1] * b[2] - s[2] * b[1]>>
        sxsxb == <<s[2] * sxb[3] - s[3] * sxb[2], s[3] * sxb[1] - s[1] * sxb[3],
                   s[1] * sxb[2] - s[2] * sxb[1]>>
    IN  << -(env.gamma * Scale * sxb[1]) - env.alpha * sxsxb[1],
           -(env.gamma * Scale * sxb[2]) - env.alpha * sxsxb[2],
           -(env.gamma * Scale * sxb[3]) - env.alpha * sxsxb[3] >>

\* C9: llg_rhs returns, site by site in the order of the input,
\* -gamma*(S x B_eff) - alpha*(S x (S x B_eff)), with S the renormalized state
\* and B_eff the field of the contract at that state and at the external field
\* sampled at time t (zero when no field function is given).
C9_RhsFormula ==
    (pc \in {"R69", "done"} /\ Len(ret) >= 1) =>
        LET S == RenormalizedState(ghost.S_in)
            out == ret[Len(ret)]
        IN  /\ Len(out) = 3 * env.N
            /\ \A i \in 1..env.N :
                 <<out[3 * (i - 1) + 1], out[3 * (i - 1) + 2], out[3 * (i - 1) + 3]>>
                   = ContractDerivative(S[i],
                        ContractField(S, env.J, env.D, env.Da, SampledField(env.t), i))

\* A call has returned a non-zero derivative for a damped chain in a field that
\* depends on the time and on the site.
C9_Witness ==
    /\ pc = "done"
    /\ env.N = MaxN
    /\ env.alpha # 0
    /\ env.D # 0
    /\ env.h_external_func
    /\ h_total(env.t, env.N, ghost.h_args) # h_total(0, env.N, ghost.h_args)
    /\ \A i \in 1..env.N : Reshape(ret[1], env.N)[i] # ZeroVec
    /\ Reshape(ret[1], env.N)[1] # Reshape(ret[1], env.N)[2]

\* a . b for one site
Dot(a, b) == a[1] * b[1] + a[2] * b[2] + a[3] * b[3]

\* C20: with alpha = 0 and no external field, the derivative llg_rhs returns
\* is, at every site, orthogonal to the renormalized spin of that site:
\* S[i] . dS[i]/dt = 0.
C20_NormConserved ==
    (pc \in {"R69", "done"} /\ Len(ret) >= 1 /\ env.alpha = 0 /\ ~env.h_external_func) =>
        \A i \in 1..env.N :
            Dot(RenormalizedState(ghost.S_in)[i], Reshape(ret[Len(ret)], env.N)[i]) = 0

\* An undamped chain without a field has returned a derivative that is not
\* zero at any site and differs from site to site.
C20_Witness ==
    /\ pc = "done"
    /\ env.alpha = 0
    /\ ~env.h_external_func
    /\ env.N = MaxN
    /\ \A i \in 1..env.N : Reshape(ret[1], env.N)[i] # ZeroVec
    /\ Reshape(ret[1], env.N)[1] # Reshape(ret[1], env.N)[2]

\* C10: after the renormalization of line 74 every site that was not the zero
\* vector has unit length and is its own entry vector divided by its own norm,
\* and every site that was the zero vector is still the zero vector.
C10_Renormalized ==
    pc \in {"R77", "R82", "R85", "R86", "R88", "R90"} =>
        \A i \in 1..env.N :
            LET before == Reshape(ghost.S_in, env.N)[i]
                after == Reshape(heap[env.S], env.N)[i]
            IN  IF before = ZeroVec
                THEN after = ZeroVec
                ELSE UnitNorm(after) /\ after = VDivNorm(before, NormSq(before))

\* The renormalization has run on a state with a zero site beside a site that
\* was not of unit length.
C10_Witness ==
    /\ pc = "R77"
    /\ env.N >= 2
    /\ Reshape(ghost.S_in, env.N)[1] = ZeroVec
    /\ NormSq(Reshape(ghost.S_in, env.N)[2]) > Scale * Scale
    /\ Reshape(heap[env.S], env.N)[2] # Reshape(ghost.S_in, env.N)[2]

(***************************************************************************)
(* llg_rhs as one function of its arguments, for its callers: the state    *)
(* array it leaves behind and the derivative it returns.                   *)
(***************************************************************************)
\* lines 69-74: the rows of the caller's array after the call
llg_rhs_S(S_flat, N) ==
    LET S == Reshape(S_flat, N)
        norms == [i \in 1..N |-> IF NormSq(S[i]) = 0 THEN Scale * Scale ELSE NormSq(S[i])]
    IN  [i \in 1..N |-> VDivNorm(S[i], norms[i])]

\* lines 65-90: the flat derivative, in units of 1/Scale^3
llg_rhs(t, S_flat, N, J, D, Da, alpha, gamma, h_external_func, h_args) ==
    LET S == llg_rhs_S(S_flat, N)
        h_ext == IF h_external_func
                 THEN [scalar |-> FALSE, v |-> h_total(t, N, h_args)]
                 ELSE [scalar |-> TRUE, v |-> 0]
        B_eff == calculate_B_eff(S, J, D, Da, h_ext)
        precession_term == ArrScale(-gamma, ArrCross(S, B_eff))
        damping_term == ArrScale(-alpha, ArrCross(S, ArrCross(S, B_eff)))
    IN  Flatten(ArrAdd(ArrScale(Scale, precession_term), damping_term))

\* The function and the line-by-line run agree on every completed call.
RhsStepsAgree ==
    (pc \in {"R69", "done"} /\ Len(ret) >= 1) =>
        /\ ret[Len(ret)] = llg_rhs(env.t, ghost.S_in, env.N, env.J, env.D, env.Da,
                                   env.alpha, env.gamma, env.h_external_func,
                                   ghost.h_args)
        /\ heap[env.S_flat] = Flatten(llg_rhs_S(ghost.S_in, env.N))

(***************************************************************************)
(* The persisted trajectory and how the analysis reads it back             *)
(* (calculate_mobility.py lines 39-44, the same lines in                   *)
(* extract_velocity.py and plot_methodology.py).  A 2-D array is a         *)
(* sequence of rows.                                                       *)
(***************************************************************************)
NumCols(A) == IF Len(A) = 0 THEN 0 ELSE Len(A[1])

\* A.T
Transpose(A) == [c \in 1..NumCols(A) |-> [r \in 1..Len(A) |-> A[r][c]]]

\* the elements of A in row-major order, the order reshape reads them in:
\* the rows of A one after the other
RECURSIVE Ravel(_)
Ravel(A) == IF Len(A) = 0 THEN <<>> ELSE A[1] \o Ravel(Tail(A))

\* A.reshape(-1, N, 3): entry [k][i] is the site vector of elements 3N(k-1)+3(i-1)+1..3
\* of flat, the row-major elements of A (taken once)
reshape_N3(A, N) ==
    CHOOSE R \in { [k \in 1..(Len(flat) \div (3 * N)) |->
                      [i \in 1..N |->
                          <<flat[3 * N * (k - 1) + 3 * (i - 1) + 1],
                            flat[3 * N * (k - 1) + 3 * (i - 1) + 2],
                            flat[3 * N * (k - 1) + 3 * (i - 1) + 3]>>]] :
                    flat \in {Ravel(A)} } : TRUE

\* line 41: N = S_history_flat.shape[0] // 3
InferN(data) == Len(data.S_history) \div 3

\* The bug of reshaping the stored array without transposing it first.
S_history_noTranspose(data) == reshape_N3(data.S_history, InferN(data))

\* line 43: S_history = S_history_flat.T.reshape(-1, N, 3)
S_history(data) == reshape_N3(Transpose(data.S_history), InferN(data))

\* line 44: sz_history = S_history[:, :, 2]
sz_history(data) ==
    CHOOSE sz \in { [k \in 1..Len(H) |-> [i \in 1..InferN(data) |-> H[k][i][3]]] :
                     H \in {S_history(data)} } : TRUE

(***************************************************************************)
(* The sweep of run_mobility_scan.py (lines 79-111).  Time is in units of  *)
(* DT_SAVE.  solve_ivp is the library's adaptive stepper: the model has it *)
(* evaluate llg_rhs on the state array it holds, record the state at each  *)
(* time of t_eval and advance by one explicit step; it may give up after   *)
(* any recorded sample, and then returns what it has with success False.   *)
(***************************************************************************)
MaxSamples == 3

DT_SAVE == 1

T_MAX == MaxSamples * DT_SAVE

\* line 93: np.arange(0, T_MAX, DT_SAVE)
t_eval == [k \in 1..((T_MAX + DT_SAVE - 1) \div DT_SAVE) |-> (k - 1) * DT_SAVE]

\* lines 23-26
h_pulse_params(N) == [h0 |-> -10, t0 |-> 2, tau |-> 1, i0 |-> N \div 2, sigma |-> 1]

\* line 30, whole numbers
alpha_values == <<0, 1>>

\* line 31, in units of 1/Scale
H_DC_values == <<-2, 2>>

\* f"{x:.3f}": x = num/den rounded to thousandths
FormatMilli(num, den) == RoundDiv(1000 * num, den)

\* lines 103-105: the file name of one point, its two formatted numbers
output_filename(alpha, h_dc) == <<FormatMilli(alpha, 1), FormatMilli(h_dc, Scale)>>

FileNames ==
    { output_filename(alpha_values[a], H_DC_values[h]) :
        a \in 1..Len(alpha_values), h \in 1..Len(H_DC_values) }

\* sol.y: the recorded states as the columns of a (3N, T) array
Stack(ys, n) == [r \in 1..n |-> [k \in 1..Len(ys) |-> ys[k][r]]]

ScanBuffers == {"S_initial", "h_args", "y", "f", "ys", "ts", "sol", "files"}

ScanLocals == {"S_initial", "h_args", "sol"}

ScanInit ==
    \E N \in 1..MaxN, J \in Couplings, D \in DmiStrengths, Da \in Anisotropies :
        /\ pc = "M85"
        /\ heap = [b \in ScanBuffers |->
                     IF b = "files" THEN [f \in FileNames |-> <<>>] ELSE <<>>]
        /\ env = [N |-> N, J |-> J, D |-> D, Da |-> Da, gamma |-> 1,
                  ai |-> 1, hi |-> 1, k |-> 0, total_sim_count |-> 1,
                  S_initial |-> "", h_args |-> "", sol |-> ""]
        /\ ret = <<>>
        /\ ghost = [runs |-> <<>>]

\* The bug of creating S_initial once, before the loops, and handing the
\* stepper a view of it: a later run starts where the previous run ended.
Scan_L85_hoisted ==
    /\ pc = "M85"
    /\ BindNew("S_initial",
               IF Len(ghost.runs) = 0 THEN [i \in 1..env.N |-> <<0, 0, Scale>>]
               ELSE LET prev == ghost.runs[Len(ghost.runs)]
                    IN  Reshape(prev.ys[Len(prev.ys)], env.N),
               "M89")

\* lines 85-86: S_initial = np.zeros((N, 3)); S_initial[:, 2] = 1.0
Scan_L85 ==
    /\ pc = "M85"
    /\ BindNew("S_initial", [i \in 1..env.N |-> <<0, 0, Scale>>], "M89")

\* line 89: h_args = {'pulse_params': h_pulse_params, 'h_dc': h_dc}
Scan_L89 ==
    /\ pc = "M89"
    /\ BindNew("h_args",
               [pulse_params |-> h_pulse_params(env.N), h_dc |-> H_DC_values[env.hi]],
               "M95")

\* lines 95-99, entry of solve_ivp: y0 = S_initial.flatten(), a copy
Solve_Entry ==
    /\ pc = "M95"
    /\ heap' = [heap EXCEPT !["y"] = Flatten(heap[env.S_initial]),
                            !["ys"] = <<>>, !["ts"] = <<>>]
    /\ env' = [env EXCEPT !.k = 1]
    /\ pc' = "V_rhs"
    /\ UNCHANGED <<ret, ghost>>

\* the stepper evaluates fun(t, y): llg_rhs renormalizes y in place and returns f
Solve_Rhs ==
    /\ pc = "V_rhs"
    /\ heap' = [heap EXCEPT
                  !["f"] = llg_rhs(t_eval[env.k], heap["y"], env.N, env.J, env.D, env.Da,
                                   alpha_values[env.ai], env.gamma, TRUE, heap[env.h_args]),
                  !["y"] = Flatten(llg_rhs_S(heap["y"], env.N))]
    /\ pc' = "V_rec"
    /\ UNCHANGED <<env, ret, ghost>>

\* the stepper records the state at t_eval[k]
Solve_Record ==
    /\ pc = "V_rec"
    /\ heap' = [heap EXCEPT !["ys"] = Append(heap["ys"], heap["y"]),
                            !["ts"] = Append(heap["ts"], t_eval[env.k])]
    /\ pc' = IF env.k = Len(t_eval) THEN "V_end" ELSE "V_adv"
    /\ UNCHANGED <<env, ret, ghost>>

\* the stepper advances to the next time of t_eval: a new array y + dt*f
Solve_Advance ==
    /\ pc = "V_adv"
    /\ heap' = [heap EXCEPT
                  !["y"] = [e \in 1..(3 * env.N) |->
                              heap["y"][e] + RoundDiv(DT_SAVE * heap["f"][e], Scale * Scale)],
                  !["f"] = <<>>]
    /\ env' = [env EXCEPT !.k = env.k + 1]
    /\ pc' = "V_rhs"
    /\ UNCHANGED <<ret, ghost>>

\* the stepper cannot take the step: solve_ivp returns status -1, success False,
\* with the samples recorded so far
Solve_Fail ==
    /\ pc = "V_adv"
    /\ BindNew("sol",
               [t |-> heap["ts"], y |-> Stack(heap["ys"], 3 * env.N), success |-> FALSE],
               "M107")

\* the end of the span is reached: solve_ivp returns status 0, success True
Solve_Return ==
    /\ pc = "V_end"
    /\ BindNew("sol",
               [t |-> heap["ts"], y |-> Stack(heap["ys"], 3 * env.N), success |-> TRUE],
               "M107")

\* lines 103-107: np.savez_compressed(output_filename, S_history=sol.y, time_points=sol.t)
Scan_L107 ==
    /\ pc = "M107"
    /\ heap' = [heap EXCEPT !["files"] =
                  [heap["files"] EXCEPT
                     ![output_filename(alpha_values[env.ai], H_DC_values[env.hi])] =
                         [S_history |-> heap[env.sol].y, time_points |-> heap[env.sol].t]]]
    /\ ghost' = [ghost EXCEPT !.runs =
                   Append(ghost.runs, [alpha |-> alpha_values[env.ai],
                                       h_dc |-> H_DC_values[env.hi],
                                       success |-> heap[env.sol].success,
                                       ys |-> heap["ys"], ts |-> heap["ts"]])]
    /\ pc' = "M110"
    /\ UNCHANGED <<env, ret>>

\* lines 110-111 and the loop headers 79-80: count the run and go to the next point
Scan_L110 ==
    /\ pc = "M110"
    /\ heap' = [b \in ScanBuffers |-> IF b = "files" THEN heap[b] ELSE <<>>]
    /\ env' = [env EXCEPT !.total_sim_count = env.total_sim_count + 1,
                          !.hi = IF env.hi < Len(H_DC_values) THEN env.hi + 1 ELSE 1,
                          !.ai = IF env.hi < Len(H_DC_values) THEN env.ai ELSE env.ai + 1,
                          !.k = 0,
                          !.S_initial = "", !.h_args = "", !.sol = ""]
    /\ pc' = IF env.hi = Len(H_DC_values) /\ env.ai = Len(alpha_values)
             THEN "done" ELSE "M85"
    /\ UNCHANGED <<ret, ghost>>

ScanNext ==
    \/ Scan_L85
    \/ Scan_L89
    \/ Solve_Entry
    \/ Solve_Rhs
    \/ Solve_Record
    \/ Solve_Advance
    \/ Solve_Fail
    \/ Solve_Return
    \/ Scan_L107
    \/ Scan_L110

SpecScan == ScanInit /\ [][ScanNext]_vars

(***************************************************************************)
(* Claims about the sweep.                                                 *)
(***************************************************************************)
\* The file a run of the sweep writes to.
RunFile(r) == heap["files"][output_filename(r.alpha, r.h_dc)]

\* C11: a run whose integration failed before the end of the time span leaves
\* no saved trajectory for its (alpha, h_dc) point.
C11_FailureSurfaced ==
    \A n \in 1..Len(ghost.runs) :
        ~ghost.runs[n].success => RunFile(ghost.runs[n]) = <<>>

\* C19: what the analysis reads back from a saved run is what the integrator
\* produced: N is the number of stored rows over 3, the k-th time is the k-th
\* recorded time, and the z-history at sample k and site i is the stored entry
\* of row 3i+2 (rows and sites counted from 0), the z-component of site i of
\* the k-th recorded state.
C19_RoundTrip ==
    pc \in {"M110", "done"} => \A n \in 1..Len(ghost.runs) :
        LET r == ghost.runs[n]
            data == RunFile(r)
        IN  /\ InferN(data) = env.N
            /\ data.time_points = r.ts
            /\ Len(sz_history(data)) = Len(r.ts)
            /\ \A k \in 1..Len(r.ts) :
                 /\ r.ts[k] = t_eval[k]
                 /\ \A i \in 1..env.N :
                      /\ sz_history(data)[k][i] = data.S_history[3 * (i - 1) + 3][k]
                      /\ sz_history(data)[k][i] = Reshape(r.ys[k], env.N)[i][3]

\* A completed run of several sites and samples has been saved whose states
\* differ from site to site and from sample to sample, with z unlike x and y.
C19_Witness ==
    /\ pc = "done"
    /\ env.N >= 2
    /\ \E n \in 1..Len(ghost.runs) :
         LET r == ghost.runs[n]
         IN  /\ r.success
             /\ Len(r.ts) >= 3
             /\ r.ys[2] # r.ys[3]
             /\ Reshape(r.ys[3], env.N)[1] # Reshape(r.ys[3], env.N)[2]
             /\ \A i \in 1..env.N :
                  /\ Reshape(r.ys[3], env.N)[i][3] # Reshape(r.ys[3], env.N)[i][1]
                  /\ Reshape(r.ys[3], env.N)[i][3] # Reshape(r.ys[3], env.N)[i][2]
             /\ sz_history(RunFile(r))[3] # sz_history(RunFile(r))[1]

(***************************************************************************)
(* The kinematics analysis: core tracking and the velocity fit             *)
(* (calculate_mobility.py, extract_velocity.py, plot_methodology.py).      *)
(* Times are whole numbers in units of DT_SAVE = 0.5.  Positions and       *)
(* slopes are exact fractions in lowest terms.  A result is a number, NaN  *)
(* or an exception that leaves the function.                               *)
(***************************************************************************)
RECURSIVE GCD(_, _)
GCD(a, b) == IF b = 0 THEN a ELSE GCD(b, a % b)

\* the fraction n/d (d # 0) in lowest terms with a positive denominator
Rat(n, d) ==
    LET g == GCD(Abs(n), Abs(d))
    IN  [num |-> Sgn(d) * (n \div g), den |-> Abs(d) \div g]

RAdd(a, b) == Rat(a.num * b.den + b.num * a.den, a.den * b.den)

RSub(a, b) == Rat(a.num * b.den - b.num * a.den, a.den * b.den)

RMul(a, b) == Rat(a.num * b.num, a.den * b.den)

RDiv(a, b) == Rat(a.num * b.den, a.den * b.num)

RInt(n) == Rat(n, 1)

NaNResult == [kind |-> "nan"]

Num(r) == [kind |-> "num", v |-> r]

Raised(e) == [kind |-> "raise", exc |-> e]

\* np.isnan(v)
isnan(v) == v.kind = "nan"

RECURSIVE SeqSum(_)
SeqSum(s) == IF Len(s) = 0 THEN 0 ELSE s[1] + SeqSum(Tail(s))

RECURSIVE RatSum(_)
RatSum(s) == IF Len(s) = 0 THEN RInt(0) ELSE RAdd(s[1], RatSum(Tail(s)))

\* The bug of counting the sites from 1.
where_negative_fromOne(row) ==
    SelectSeq([i \in 1..Len(row) |-> i], LAMBDA j : row[j] < 0)

\* np.where(row < 0.0)[0]: the indices, from 0, in increasing order
where_negative(row) ==
    SelectSeq([i \in 1..Len(row) |-> i - 1], LAMBDA j : row[j + 1] < 0)

\* np.mean(indices) of a non-empty sequence of whole numbers
mean(indices) == Rat(SeqSum(indices), Len(indices))

\* x[mask]
Masked(x, mask) ==
    LET idx == SelectSeq([k \in 1..Len(x) |-> k], LAMBDA k : mask[k])
    IN  [j \in 1..Len(idx) |-> x[idx[j]]]

\* np.sum(mask)
CountTrue(mask) == Cardinality({k \in 1..Len(mask) : mask[k]})

\* the slope of the least-squares line through (x[k], y[k]), x whole numbers
\* that are not all equal, y fractions
LeastSquaresSlope(x, y) ==
    LET n == Len(x)
        sx == SeqSum(x)
        sxx == SeqSum([k \in 1..n |-> x[k] * x[k]])
        sy == RatSum(y)
        sxy == RatSum([k \in 1..n |-> RMul(RInt(x[k]), y[k])])
    IN  RDiv(RSub(RMul(RInt(n), sxy), RMul(RInt(sx), sy)), RInt(n * sxx - sx * sx))

\* scipy's curve_fit(linear_func, xdata, ydata): with fewer points than the two
\* parameters it raises TypeError; when the minimization does not converge it
\* raises RuntimeError (converges tells which); else the fitted slope params[0]
curve_fit(xdata, ydata, converges) ==
    IF Len(xdata) < 2 THEN Raised("TypeError")
    ELSE IF ~converges THEN Raised("RuntimeError")
    ELSE Num(LeastSquaresSlope(xdata, ydata))

\* line 16 of calculate_mobility.py, 30.0 in units of DT_SAVE = 0.5
T_START_FIT == 60

\* line 17 of calculate_mobility.py, 150.0 in units of DT_SAVE = 0.5
T_END_FIT == 300

\* The bug of keeping the sample index t_idx instead of the time time_points[t_idx].
RECURSIVE TrackLoop_index(_, _, _, _)
TrackLoop_index(sz, time_points, k, acc) ==
    IF k > Len(time_points) THEN acc
    ELSE LET core_indices == where_negative(sz[k])
         IN  IF Len(core_indices) > 0
             THEN TrackLoop_index(sz, time_points, k + 1,
                                  [positions |-> Append(acc.positions, mean(core_indices)),
                                   times_with_soliton |->
                                       Append(acc.times_with_soliton, k - 1)])
             ELSE TrackLoop_index(sz, time_points, k + 1, acc)

\* lines 47-53 of calculate_mobility.py: the tracking loop from sample k on,
\* acc the two lists so far
RECURSIVE TrackLoop(_, _, _, _)
TrackLoop(sz, time_points, k, acc) ==
    IF k > Len(time_points) THEN acc
    ELSE LET core_indices == where_negative(sz[k])
         IN  IF Len(core_indices) > 0
             THEN TrackLoop(sz, time_points, k + 1,
                            [positions |-> Append(acc.positions, mean(core_indices)),
                             times_with_soliton |->
                                 Append(acc.times_with_soliton, time_points[k])])
             ELSE TrackLoop(sz, time_points, k + 1, acc)

\* The bug of counting a zero z-component as part of the core.
Track_orZero(data) ==
    LET sz == sz_history(data)
    IN  TrackLoop([k \in 1..Len(sz) |->
                      [i \in 1..Len(sz[k]) |-> IF sz[k][i] = 0 THEN -1 ELSE sz[k][i]]],
                  data.time_points, 1, [positions |-> <<>>, times_with_soliton |-> <<>>])

\* lines 39-53 of calculate_mobility.py
Track(data) ==
    TrackLoop(sz_history(data), data.time_points, 1,
              [positions |-> <<>>, times_with_soliton |-> <<>>])

\* The bug of a window closed at both ends.
FitMask_closed(times_with_soliton) ==
    [k \in 1..Len(times_with_soliton) |->
        times_with_soliton[k] >= T_START_FIT /\ times_with_soliton[k] <= T_END_FIT]

\* line 62 of calculate_mobility.py
FitMask(times_with_soliton) ==
    [k \in 1..Len(times_with_soliton) |->
        times_with_soliton[k] > T_START_FIT /\ times_with_soliton[k] < T_END_FIT]

\* The bug of asking for one in-window sample only.
TooFew_one(mask) == CountTrue(mask) < 1

\* line 63 of calculate_mobility.py: np.sum(mask) < 2
TooFew(mask) == CountTrue(mask) < 2

\* lines 70-74 of calculate_mobility.py: try the fit, NaN on RuntimeError
TryFit(t_fit, pos_fit, converges) ==
    LET fit == curve_fit(t_fit, pos_fit, converges)
    IN  IF fit.kind = "raise" /\ fit.exc = "RuntimeError" THEN NaNResult ELSE fit

\* The bug of reporting a velocity of zero when no soliton was tracked.
calculate_velocity_zeroOnEmpty(data, converges) ==
    IF data = <<>> THEN NaNResult
    ELSE LET tr == Track(data)
         IN  IF Len(tr.times_with_soliton) = 0 THEN Num(RInt(0))
             ELSE LET mask == FitMask(tr.times_with_soliton)
                  IN  IF TooFew(mask) THEN NaNResult
                      ELSE TryFit(Masked(tr.times_with_soliton, mask),
                                  Masked(tr.positions, mask), converges)

\* lines 28-74 of calculate_mobility.py; data is <<>> when the file is missing
calculate_velocity(data, converges) ==
    IF data = <<>> THEN NaNResult
    ELSE LET tr == Track(data)
         IN  IF Len(tr.times_with_soliton) = 0 THEN NaNResult
             ELSE LET mask == FitMask(tr.times_with_soliton)
                  IN  IF TooFew(mask) THEN NaNResult
                      ELSE TryFit(Masked(tr.times_with_soliton, mask),
                                  Masked(tr.positions, mask), converges)

\* lines 100-107 of plot_methodology.py: the tracking loop from sample k on
RECURSIVE MetTrackLoop(_, _, _, _)
MetTrackLoop(sz, time_points, k, acc) ==
    IF k > Len(time_points) THEN acc
    ELSE LET core_indices == where_negative(sz[k])
         IN  IF Len(core_indices) > 0
             THEN MetTrackLoop(sz, time_points, k + 1,
                               [positions |-> Append(acc.positions, mean(core_indices)),
                                times_with_soliton |->
                                    Append(acc.times_with_soliton, time_points[k])])
             ELSE MetTrackLoop(sz, time_points, k + 1, acc)

\* the four values plot_methodology.py returns when there is no velocity
MetNothing ==
    [velocity |-> NaNResult, velocity_error |-> NaNResult,
     time_data |-> "None", position_data |-> "None"]

\* lines 83-129 of plot_methodology.py.  The regression error sqrt(pcov[0, 0])
\* is kept as its kind only: infinite for a line through exactly two points
\* (curve_fit cannot estimate the covariance), finite otherwise.
calculate_velocity_with_error(data, converges) ==
    IF data = <<>> THEN MetNothing
    ELSE LET N == Len(data.S_history) \div 3
             S_hist == reshape_N3(Transpose(data.S_history), N)
             sz == [k \in 1..Len(S_hist) |-> [i \in 1..N |-> S_hist[k][i][3]]]
             tr == MetTrackLoop(sz, data.time_points, 1,
                                [positions |-> <<>>, times_with_soliton |-> <<>>])
         IN  IF Len(tr.times_with_soliton) = 0 THEN MetNothing
             ELSE LET mask == [k \in 1..Len(tr.times_with_soliton) |->
                                  /\ tr.times_with_soliton[k] > T_START_FIT
                                  /\ tr.times_with_soliton[k] < T_END_FIT]
                  IN  IF CountTrue(mask) < 2 THEN MetNothing
                      ELSE LET t_fit == Masked(tr.times_with_soliton, mask)
                               pos_fit == Masked(tr.positions, mask)
                               fit == curve_fit(t_fit, pos_fit, converges)
                           IN  IF fit.kind = "raise"
                               THEN IF fit.exc = "RuntimeError" THEN MetNothing ELSE fit
                               ELSE [velocity |-> fit,
                                     velocity_error |->
                                         [kind |-> IF Len(t_fit) = 2 THEN "inf" ELSE "finite"],
                                     time_data |-> tr.times_with_soliton,
                                     position_data |-> tr.positions]

\* lines 65-72 of extract_velocity.py: the tracking loop from sample k on
RECURSIVE ExtTrackLoop(_, _, _, _)
ExtTrackLoop(sz, time_points, k, acc) ==
    IF k > Len(time_points) THEN acc
    ELSE LET core_indices == where_negative(sz[k])
         IN  IF Len(core_indices) > 0
             THEN ExtTrackLoop(sz, time_points, k + 1,
                               [positions |-> Append(acc.positions, mean(core_indices)),
                                times_with_soliton |->
                                    Append(acc.times_with_soliton, time_points[k])])
             ELSE ExtTrackLoop(sz, time_points, k + 1, acc)

\* The bug of a fit window in extract_velocity.py that takes in its two ends.
extract_velocity_body_closedWindow(data, converges) ==
    LET N == Len(data.S_history) \div 3
        S_hist == reshape_N3(Transpose(data.S_history), N)
        sz == [k \in 1..Len(S_hist) |-> [i \in 1..N |-> S_hist[k][i][3]]]
        tr == ExtTrackLoop(sz, data.time_points, 1,
                           [positions |-> <<>>, times_with_soliton |-> <<>>])
    IN  IF Len(tr.times_with_soliton) = 0 THEN NaNResult
        ELSE LET mask == [k \in 1..Len(tr.times_with_soliton) |->
                             /\ tr.times_with_soliton[k] >= T_START_FIT
                             /\ tr.times_with_soliton[k] <= T_END_FIT]
             IN  IF CountTrue(mask) < 2 THEN NaNResult
                 ELSE LET fit == curve_fit(Masked(tr.times_with_soliton, mask),
                                           Masked(tr.positions, mask), converges)
                      IN  IF fit.kind = "raise" /\ fit.exc = "RuntimeError"
                          THEN NaNResult ELSE fit

\* lines 56-100 of extract_velocity.py, the body of the loop for one file that
\* was loaded: the value appended to velocities, or the exception that leaves
\* the loop
extract_velocity_body(data, converges) ==
    LET N == Len(data.S_history) \div 3
        S_hist == reshape_N3(Transpose(data.S_history), N)
        sz == [k \in 1..Len(S_hist) |-> [i \in 1..N |-> S_hist[k][i][3]]]
        tr == ExtTrackLoop(sz, data.time_points, 1,
                           [positions |-> <<>>, times_with_soliton |-> <<>>])
    IN  IF Len(tr.times_with_soliton) = 0 THEN NaNResult
        ELSE LET mask == [k \in 1..Len(tr.times_with_soliton) |->
                             /\ tr.times_with_soliton[k] > T_START_FIT
                             /\ tr.times_with_soliton[k] < T_END_FIT]
             IN  IF CountTrue(mask) < 2 THEN NaNResult
                 ELSE LET fit == curve_fit(Masked(tr.times_with_soliton, mask),
                                           Masked(tr.positions, mask), converges)
                      IN  IF fit.kind = "raise" /\ fit.exc = "RuntimeError"
                          THEN NaNResult ELSE fit

(***************************************************************************)
(* The three copies of the tracking and velocity pipeline, each run on one *)
(* stored trajectory.  The trajectory has its sample times on a grid       *)
(* around the two ends of the fit window and, at each sample, a core of    *)
(* negative z on a background of positive and zero z; x and y are          *)
(* negative throughout.                                                    *)
(***************************************************************************)
MaxTimes == 4

TimeGrid == {T_START_FIT - 1, T_START_FIT, T_START_FIT + 1, T_END_FIT - 1, T_END_FIT}

TimeSeqs ==
    UNION { { s \in [1..n -> TimeGrid] : \A k \in 1..(n - 1) : s[k] < s[k + 1] } :
            n \in 0..MaxTimes }

CoreChoices(N) == { {}, {1}, {N}, {1, N} }

SiteState(i, core) ==
    << -3, -4, IF i \in core THEN -Scale ELSE IF i % 2 = 1 THEN Scale ELSE 0 >>

VelBuffers == {"file"}

VelInit ==
    \E N \in 1..MaxN, time_points \in TimeSeqs, converges \in BOOLEAN, exists \in BOOLEAN :
      \E cores \in [1..Len(time_points) -> CoreChoices(N)] :
        LET states == [k \in 1..Len(time_points) |->
                          [i \in 1..N |-> SiteState(i, cores[k])]]
            data == [S_history |-> Stack([k \in 1..Len(states) |-> Flatten(states[k])], 3 * N),
                     time_points |-> time_points]
        IN  /\ exists \/ (N = 1 /\ time_points = <<>> /\ converges)
            /\ pc = "K_mob"
            /\ heap = [b \in VelBuffers |-> IF exists THEN data ELSE <<>>]
            /\ env = [N |-> N, converges |-> converges]
            /\ ret = <<>>
            /\ ghost = [states |-> states, time_points |-> time_points, tracked |-> <<>>]

\* calculate_mobility.py: v = calculate_velocity(filename)
Vel_Mob ==
    /\ pc = "K_mob"
    /\ ret' = Append(ret, calculate_velocity(heap["file"], env.converges))
    /\ ghost' = [ghost EXCEPT !.tracked =
                   IF heap["file"] = <<>> THEN <<>> ELSE <<Track(heap["file"])>>]
    /\ pc' = "K_met"
    /\ UNCHANGED <<heap, env>>

\* plot_methodology.py: v, v_err, _, _ = calculate_velocity_with_error(filename)
Vel_Met ==
    /\ pc = "K_met"
    /\ ret' = Append(ret, calculate_velocity_with_error(heap["file"], env.converges))
    /\ ghost' = [ghost EXCEPT !.tracked =
                   IF heap["file"] = <<>> THEN <<>>
                   ELSE Append(ghost.tracked,
                               MetTrackLoop(sz_history(heap["file"]), heap["file"].time_points,
                                            1, [positions |-> <<>>,
                                                times_with_soliton |-> <<>>]))]
    /\ pc' = IF heap["file"] = <<>> THEN "done" ELSE "K_ext"
    /\ UNCHANGED <<heap, env>>

\* extract_velocity.py: the loop body on a file of the listing
Vel_Ext ==
    /\ pc = "K_ext"
    /\ ret' = Append(ret, extract_velocity_body(heap["file"], env.converges))
    /\ ghost' = [ghost EXCEPT !.tracked =
                   Append(ghost.tracked,
                          ExtTrackLoop(sz_history(heap["file"]), heap["file"].time_points,
                                       1, [positions |-> <<>>,
                                           times_with_soliton |-> <<>>]))]
    /\ pc' = "done"
    /\ UNCHANGED <<heap, env>>

VelNext ==
    \/ Vel_Mob
    \/ Vel_Met
    \/ Vel_Ext

SpecVel == VelInit /\ [][VelNext]_vars

(***************************************************************************)
(* Claims about tracking and velocity extraction.                          *)
(***************************************************************************)
\* The velocity each pipeline has reported, in the order they ran.
Velocities ==
    [p \in 1..Len(ret) |-> IF p = 2 /\ "velocity" \in DOMAIN ret[p]
                           THEN ret[p].velocity ELSE ret[p]]

\* The site indices, from 0, whose z is strictly below 0 at sample k.
CoreSet(k) == { i - 1 : i \in { j \in 1..env.N : ghost.states[k][j][3] < 0 } }

RECURSIVE SetSum(_)
SetSum(T) == IF T = {} THEN 0 ELSE LET x == CHOOSE y \in T : TRUE IN x + SetSum(T \ {x})

\* The samples with a non-empty core set, in time order.
CoreSamples ==
    SelectSeq([k \in 1..Len(ghost.time_points) |-> k], LAMBDA k : CoreSet(k) # {})

\* The (time, mean core index) samples of the contract.
ExpectedTrack ==
    [times_with_soliton |-> [n \in 1..Len(CoreSamples) |-> ghost.time_points[CoreSamples[n]]],
     positions |-> [n \in 1..Len(CoreSamples) |->
                       Rat(SetSum(CoreSet(CoreSamples[n])),
                           Cardinality(CoreSet(CoreSamples[n])))]]

WindowSamples(InWindow(_)) ==
    LET idx == SelectSeq([n \in 1..Len(ExpectedTrack.times_with_soliton) |-> n],
                         LAMBDA n : InWindow(ExpectedTrack.times_with_soliton[n]))
    IN  [t |-> [j \in 1..Len(idx) |-> ExpectedTrack.times_with_soliton[idx[j]]],
         pos |-> [j \in 1..Len(idx) |-> ExpectedTrack.positions[idx[j]]]]

StrictlyInside(t) == T_START_FIT < t /\ t < T_END_FIT

InsideOrAtEnd(t) == T_START_FIT <= t /\ t <= T_END_FIT

OpenWindow == WindowSamples(StrictlyInside)

ClosedWindow == WindowSamples(InsideOrAtEnd)

\* C13 as amended: a fitted velocity is the least-squares slope through exactly
\* the tracked samples with T_START_FIT < time < T_END_FIT; a tracked sample at
\* exactly T_START_FIT or T_END_FIT is outside the window, and no sample
\* outside it influences the velocity.
C13_OpenWindowFit ==
    pc = "done" =>
        \A p \in 1..Len(ret) :
            Velocities[p].kind = "num" =>
                /\ Len(OpenWindow.t) >= 2
                /\ Velocities[p].v = LeastSquaresSlope(OpenWindow.t, OpenWindow.pos)

\* C13 as stated: a fitted velocity is the least-squares slope through exactly
\* the tracked samples with T_START_FIT <= time <= T_END_FIT.
C13_ClosedWindowFit ==
    pc = "done" =>
        \A p \in 1..Len(ret) :
            Velocities[p].kind = "num" =>
                Velocities[p].v = LeastSquaresSlope(ClosedWindow.t, ClosedWindow.pos)

\* A velocity was fitted on a trajectory with tracked samples before the
\* window, at its start and inside it, the sample at the start off the line
\* through the others.
C13_Witness ==
    /\ pc = "done"
    /\ Len(ret) = 3
    /\ \A p \in 1..3 : Velocities[p].kind = "num"
    /\ Len(OpenWindow.t) = 2
    /\ Len(ClosedWindow.t) = 3
    /\ Len(ExpectedTrack.positions) = 4
    /\ LeastSquaresSlope(ClosedWindow.t, ClosedWindow.pos) # Velocities[1].v

\* C14: with fewer than 2 tracked samples in the fit window every pipeline
\* reports NaN; with 2 or more it attempts the fit, reporting the fitted slope
\* when the fit converges and NaN when it does not; no exception leaves it.
C14_TooFewIsNaN ==
    pc = "done" =>
        \A inside \in {Len(OpenWindow.t)} :
            \A p \in 1..Len(ret) :
                /\ Velocities[p].kind # "raise"
                /\ inside < 2 => Velocities[p].kind = "nan"
                /\ inside >= 2 =>
                      Velocities[p].kind = IF env.converges THEN "num" ELSE "nan"

\* The pipelines have run on a trajectory with exactly one tracked sample in
\* the window and others outside, with a fit that would converge.
C14_Witness ==
    /\ pc = "done"
    /\ Len(ret) = 3
    /\ env.converges
    /\ Len(OpenWindow.t) = 1
    /\ Len(ExpectedTrack.positions) >= 2
    /\ \A p \in 1..3 : Velocities[p].kind = "nan"

\* C15: when no sampled time has a site with z < 0, every pipeline reports NaN
\* whatever the fit would do, and no exception leaves it.
C15_NoSolitonIsNaN ==
    pc = "done" =>
        ((\A k \in 1..Len(ghost.time_points) : CoreSet(k) = {}) =>
            \A p \in 1..Len(ret) : Velocities[p].kind = "nan")

\* The pipelines have run on a trajectory with samples inside the window, none
\* with a negative z, and a fit that would converge.
C15_Witness ==
    /\ pc = "done"
    /\ Len(ret) = 3
    /\ env.converges
    /\ Cardinality({k \in 1..Len(ghost.time_points) :
                       StrictlyInside(ghost.time_points[k])}) >= 2
    /\ \A k \in 1..Len(ghost.time_points) : CoreSet(k) = {}
    /\ \A p \in 1..3 : Velocities[p].kind = "nan"

(***************************************************************************)
(* The sweep loops of the analysis.  Each point reads its trajectory file  *)
(* when it is reached; the file system holds, for a point, no file or one  *)
(* of a few trajectories of two sites: without a core, with a core that    *)
(* leaves the window early, with a core at rest, moving up or moving down. *)
(***************************************************************************)
MakeData(N, time_points, cores) ==
    [S_history |->
        Stack([k \in 1..Len(time_points) |->
                  Flatten([i \in 1..N |-> SiteState(i, cores[k])])], 3 * N),
     time_points |-> time_points]

InsideTimes == <<T_START_FIT + 1, T_END_FIT - 1>>

StoredFiles ==
    { MakeData(2, InsideTimes, <<{}, {}>>),
      MakeData(2, <<T_START_FIT + 1, T_END_FIT>>, <<{1}, {1}>>),
      MakeData(2, InsideTimes, <<{1}, {1}>>),
      MakeData(2, InsideTimes, <<{1}, {2}>>),
      MakeData(2, InsideTimes, <<{2}, {1}>>) }

SweepFiles == StoredFiles \cup {<<>>}

\* lines 12-13 of calculate_mobility.py: whole numbers, and units of 1/Scale
mob_alpha_values == <<0, 1>>

mob_H_DC_values == <<-2, 0, 2>>

SweepBuffers ==
    {"velocities_for_this_alpha", "hdc_for_this_alpha", "alpha_plot", "mu_plot",
     "alpha_values", "velocities", "velocity_errors", "legend_elements", "saved"}

\* why a point has no velocity, or "success"
Cause(data, converges) ==
    IF data = <<>> THEN "missing"
    ELSE IF \A k \in 1..Len(data.time_points) :
               \A i \in 1..InferN(data) : data.S_history[3 * (i - 1) + 3][k] >= 0
         THEN "no soliton"
    ELSE IF Cardinality({k \in 1..Len(data.time_points) :
                           /\ \E i \in 1..InferN(data) : data.S_history[3 * (i - 1) + 3][k] < 0
                           /\ data.time_points[k] > T_START_FIT
                           /\ data.time_points[k] < T_END_FIT}) < 2
         THEN "too few"
    ELSE IF ~converges THEN "fit failure"
    ELSE "success"

MobInit ==
    /\ pc = "A86"
    /\ heap = [b \in SweepBuffers |-> <<>>]
    /\ env = [prog |-> "calculate_mobility", ai |-> 1, hi |-> 1]
    /\ ret = <<>>
    /\ ghost = [count |-> 0, finished |-> 0, log |-> <<>>, fit |-> <<>>, before |-> 0]

\* lines 83-87: the next alpha; the two lists of this alpha start empty
Mob_L86 ==
    /\ pc = "A86"
    /\ heap' = [heap EXCEPT !["velocities_for_this_alpha"] = <<>>,
                            !["hdc_for_this_alpha"] = <<>>]
    /\ env' = [env EXCEPT !.hi = 1]
    /\ ghost' = [ghost EXCEPT !.log = <<>>, !.fit = <<>>,
                              !.before = Len(heap["alpha_plot"])]
    /\ pc' = "A96"
    /\ UNCHANGED ret

\* lines 89-103: one h_dc of this alpha
Mob_L96 ==
    /\ pc = "A96"
    /\ \E data \in SweepFiles, converges \in BOOLEAN :
         LET v == calculate_velocity(data, converges)
         IN  /\ heap' = IF v.kind = "num"
                        THEN [heap EXCEPT
                                !["velocities_for_this_alpha"] = Append(@, v.v),
                                !["hdc_for_this_alpha"] = Append(@, mob_H_DC_values[env.hi])]
                        ELSE heap
             /\ ghost' = [ghost EXCEPT
                            !.count = @ + 1,
                            !.log = Append(@, [h_dc |-> mob_H_DC_values[env.hi],
                                               cause |-> Cause(data, converges),
                                               data |-> data, v |-> v])]
             /\ pc' = IF v.kind = "raise" THEN "aborted"
                      ELSE IF env.hi = Len(mob_H_DC_values) THEN "A106" ELSE "A96"
    /\ env' = [env EXCEPT !.hi = @ + 1]
    /\ UNCHANGED ret

\* The bug of fitting a mobility through a single pair.
TooFewPairs_one(hdc_for_this_alpha) == Len(hdc_for_this_alpha) < 1

\* line 106: len(hdc_for_this_alpha) < 2
TooFewPairs(hdc_for_this_alpha) == Len(hdc_for_this_alpha) < 2

\* where the alpha loop goes after the alpha at index ai
AfterAlpha(ai) == IF ai = Len(mob_alpha_values) THEN "A123" ELSE "A86"

\* The bug of leaving the alpha loop at the first alpha without a mobility.
Mob_L106_break ==
    /\ pc = "A106"
    /\ TooFewPairs(heap["hdc_for_this_alpha"])
    /\ ghost' = [ghost EXCEPT !.finished = @ + 1]
    /\ pc' = "A123"
    /\ UNCHANGED <<heap, env, ret>>

\* lines 106-108: too few pairs, continue with the next alpha
Mob_L106 ==
    /\ pc = "A106"
    /\ TooFewPairs(heap["hdc_for_this_alpha"])
    /\ env' = [env EXCEPT !.ai = @ + 1]
    /\ ghost' = [ghost EXCEPT !.finished = @ + 1]
    /\ pc' = AfterAlpha(env.ai)
    /\ UNCHANGED <<heap, ret>>

\* lines 110-120: the mobility fit of this alpha
Mob_L112 ==
    /\ pc = "A106"
    /\ ~TooFewPairs(heap["hdc_for_this_alpha"])
    /\ \E converges \in BOOLEAN :
         LET fit == curve_fit(heap["hdc_for_this_alpha"],
                              heap["velocities_for_this_alpha"], converges)
         IN  /\ heap' = IF fit.kind = "num"
                        THEN [heap EXCEPT
                                !["alpha_plot"] = Append(@, mob_alpha_values[env.ai]),
                                !["mu_plot"] = Append(@, fit.v)]
                        ELSE heap
             /\ ghost' = [ghost EXCEPT
                            !.finished = @ + 1,
                            !.fit = <<[x |-> heap["hdc_for_this_alpha"],
                                       y |-> heap["velocities_for_this_alpha"],
                                       result |-> fit]>>]
             /\ pc' = IF fit.kind = "raise" /\ fit.exc # "RuntimeError"
                      THEN "aborted" ELSE AfterAlpha(env.ai)
    /\ env' = [env EXCEPT !.ai = @ + 1]
    /\ UNCHANGED ret

\* lines 122-146: the figure and np.savez_compressed(..., alpha=alpha_plot, mu=mu_plot)
Mob_L140 ==
    /\ pc = "A123"
    /\ heap' = [heap EXCEPT !["saved"] =
                  [alpha |-> heap["alpha_plot"], mu |-> heap["mu_plot"]]]
    /\ pc' = "done"
    /\ UNCHANGED <<env, ret, ghost>>

MobNext ==
    \/ Mob_L86
    \/ Mob_L96
    \/ Mob_L106
    \/ Mob_L112
    \/ Mob_L140

(***************************************************************************)
(* The loop of extract_velocity.py over the files of its data directory.   *)
(* A file name ends in a token that float() parses to alpha or rejects.    *)
(***************************************************************************)
MaxFiles == 2

NameTokens ==
    { [numeric |-> TRUE, value |-> 0], [numeric |-> TRUE, value |-> 1],
      [numeric |-> FALSE, value |-> 0] }

\* line 49: float(filename.split('_')[-1].replace('.npz', ''))
ParseAlpha(token) == IF token.numeric THEN Num(token.value) ELSE Raised("ValueError")

\* (alpha, velocity) tuples in Python's order; a comparison with NaN is False
PairLess(a, b) ==
    \/ a[1] < b[1]
    \/ /\ a[1] = b[1]
       /\ a[2].kind = "num" /\ b[2].kind = "num"
       /\ a[2].v.num * b[2].v.den < b[2].v.num * a[2].v.den

\* sorted(...): p put after the last element it is not less than, from the right
RECURSIVE InsertSorted(_, _)
InsertSorted(s, p) ==
    IF Len(s) = 0 THEN <<p>>
    ELSE IF PairLess(p, s[Len(s)])
         THEN Append(InsertSorted(SubSeq(s, 1, Len(s) - 1), p), s[Len(s)])
         ELSE Append(s, p)

RECURSIVE sorted(_)
sorted(s) == IF Len(s) = 0 THEN <<>>
             ELSE InsertSorted(sorted(SubSeq(s, 1, Len(s) - 1)), s[Len(s)])

\* zip(a, b)
zip(a, b) ==
    [k \in 1..(IF Len(a) < Len(b) THEN Len(a) ELSE Len(b)) |-> <<a[k], b[k]>>]

ExtInit ==
    \E n \in 1..MaxFiles :
        /\ pc = "E46"
        /\ heap = [b \in SweepBuffers |-> <<>>]
        /\ env = [prog |-> "extract_velocity", n |-> n, fi |-> 1]
        /\ ret = <<>>
        /\ ghost = [count |-> 0, log |-> <<>>]

\* The bug of going on to the next file without appending np.nan when no
\* velocity could be computed.
Ext_L46_noNaNAppend ==
    /\ pc = "E46"
    /\ \E token \in NameTokens, data \in StoredFiles, converges \in BOOLEAN :
         LET alpha == ParseAlpha(token)
             velocity == extract_velocity_body(data, converges)
         IN  /\ heap' =
                  IF alpha.kind = "raise" THEN heap
                  ELSE IF velocity.kind # "num"
                  THEN [heap EXCEPT !["alpha_values"] = Append(@, alpha.v)]
                  ELSE [heap EXCEPT !["alpha_values"] = Append(@, alpha.v),
                                    !["velocities"] = Append(@, velocity)]
             /\ ghost' = [ghost EXCEPT
                            !.count = @ + 1,
                            !.log = Append(@, [token |-> token,
                                               cause |-> IF token.numeric
                                                         THEN Cause(data, converges)
                                                         ELSE "bad name",
                                               data |-> data])]
             /\ pc' = IF alpha.kind # "raise" /\ velocity.kind = "raise" THEN "aborted"
                      ELSE IF env.fi = env.n THEN "E105" ELSE "E46"
    /\ env' = [env EXCEPT !.fi = @ + 1]
    /\ UNCHANGED ret

\* lines 46-100: one file of the listing
Ext_L46 ==
    /\ pc = "E46"
    /\ \E token \in NameTokens, data \in StoredFiles, converges \in BOOLEAN :
         LET alpha == ParseAlpha(token)
             velocity == extract_velocity_body(data, converges)
         IN  /\ heap' =
                  IF alpha.kind = "raise" THEN heap
                  ELSE IF velocity.kind = "raise"
                  THEN [heap EXCEPT !["alpha_values"] = Append(@, alpha.v)]
                  ELSE [heap EXCEPT !["alpha_values"] = Append(@, alpha.v),
                                    !["velocities"] = Append(@, velocity)]
             /\ ghost' = [ghost EXCEPT
                            !.count = @ + 1,
                            !.log = Append(@, [token |-> token,
                                               cause |-> IF token.numeric
                                                         THEN Cause(data, converges)
                                                         ELSE "bad name",
                                               data |-> data])]
             /\ pc' = IF alpha.kind # "raise" /\ velocity.kind = "raise" THEN "aborted"
                      ELSE IF env.fi = env.n THEN "E105" ELSE "E46"
    /\ env' = [env EXCEPT !.fi = @ + 1]
    /\ UNCHANGED ret

\* lines 105-125: sort the pairs by alpha and save them
Ext_L105 ==
    /\ pc = "E105"
    /\ heap' = [heap EXCEPT !["saved"] =
                  LET sorted_data == sorted(zip(heap["alpha_values"], heap["velocities"]))
                  IN  [alpha |-> [k \in 1..Len(sorted_data) |-> sorted_data[k][1]],
                       v_int |-> [k \in 1..Len(sorted_data) |-> sorted_data[k][2]]]]
    /\ pc' = "done"
    /\ UNCHANGED <<env, ret, ghost>>

ExtNext ==
    \/ Ext_L46
    \/ Ext_L105

(***************************************************************************)
(* Panel (b) of plot_methodology.py (lines 250-317): velocity against      *)
(* field for each alpha of the figure, with a weighted line fit.  The      *)
(* value of the weighted fit is not computed: a legend entry keeps the     *)
(* data the line was fitted on.                                            *)
(***************************************************************************)
\* line 47 of plot_methodology.py, whole numbers
alphas_to_plot == <<0, 1>>

\* line 35 of plot_methodology.py, in units of 1/Scale
met_H_DC_values == <<-2, 0, 2>>

MetInit ==
    /\ pc = "P251"
    /\ heap = [b \in SweepBuffers |-> <<>>]
    /\ env = [prog |-> "plot_methodology", ai |-> 1, hi |-> 1]
    /\ ret = <<>>
    /\ ghost = [count |-> 0, finished |-> 0, log |-> <<>>, fit |-> <<>>, before |-> 0]

\* lines 250-254: the next alpha; its two lists start empty
Met_L251 ==
    /\ pc = "P251"
    /\ heap' = [heap EXCEPT !["velocities"] = <<>>, !["velocity_errors"] = <<>>]
    /\ env' = [env EXCEPT !.hi = 1]
    /\ ghost' = [ghost EXCEPT !.log = <<>>, !.fit = <<>>,
                              !.before = Len(heap["legend_elements"])]
    /\ pc' = "P263"
    /\ UNCHANGED ret

\* lines 257-265: one h_dc of this alpha
Met_L263 ==
    /\ pc = "P263"
    /\ \E data \in SweepFiles, converges \in BOOLEAN :
         LET r == calculate_velocity_with_error(data, converges)
             failed == "velocity" \notin DOMAIN r
         IN  /\ heap' = IF failed THEN heap
                        ELSE [heap EXCEPT
                                !["velocities"] = Append(@, r.velocity),
                                !["velocity_errors"] =
                                    Append(@, IF isnan(r.velocity_error)
                                              THEN [kind |-> "zero"]
                                              ELSE r.velocity_error)]
             /\ ghost' = [ghost EXCEPT
                            !.count = @ + 1,
                            !.log = Append(@, [h_dc |-> met_H_DC_values[env.hi],
                                               cause |-> Cause(data, converges),
                                               data |-> data,
                                               v |-> IF failed THEN r ELSE r.velocity])]
             /\ pc' = IF failed THEN "aborted"
                      ELSE IF env.hi = Len(met_H_DC_values) THEN "P270" ELSE "P263"
    /\ env' = [env EXCEPT !.hi = @ + 1]
    /\ UNCHANGED ret

\* line 270: valid_mask = ~np.isnan(velocities)
valid_mask(velocities) == [k \in 1..Len(velocities) |-> ~isnan(velocities[k])]

AfterPanelAlpha(ai) == IF ai = Len(alphas_to_plot) THEN "done" ELSE "P251"

\* lines 272-283 with np.sum(valid_mask) <= 1: the points are drawn, no line
Met_L283_noFit ==
    /\ pc = "P270"
    /\ ~(CountTrue(valid_mask(heap["velocities"])) > 1)
    /\ env' = [env EXCEPT !.ai = @ + 1]
    /\ ghost' = [ghost EXCEPT !.finished = @ + 1]
    /\ pc' = AfterPanelAlpha(env.ai)
    /\ UNCHANGED <<heap, ret>>

\* lines 283-317: the weighted line fit and its legend entry
Met_L285 ==
    /\ pc = "P270"
    /\ CountTrue(valid_mask(heap["velocities"])) > 1
    /\ \E converges \in BOOLEAN :
         LET mask == valid_mask(heap["velocities"])
             x == Masked(met_H_DC_values, mask)
             y == Masked(heap["velocities"], mask)
             sigma == Masked(heap["velocity_errors"], mask)
             fit == curve_fit(x, [k \in 1..Len(y) |-> y[k].v], converges)
         IN  /\ heap' = [heap EXCEPT !["legend_elements"] =
                           Append(@, [alpha |-> alphas_to_plot[env.ai],
                                      fitted |-> fit.kind = "num"])]
             /\ ghost' = [ghost EXCEPT
                            !.finished = @ + 1,
                            !.fit = <<[x |-> x, y |-> [k \in 1..Len(y) |-> y[k].v],
                                       sigma |-> sigma, result |-> fit]>>]
             /\ pc' = IF fit.kind = "raise" /\ fit.exc # "RuntimeError"
                      THEN "aborted" ELSE AfterPanelAlpha(env.ai)
    /\ env' = [env EXCEPT !.ai = @ + 1]
    /\ UNCHANGED ret

MetNext ==
    \/ Met_L251
    \/ Met_L263
    \/ Met_L283_noFit
    \/ Met_L285

SweepInit == MobInit \/ ExtInit \/ MetInit

SweepNext == MobNext \/ ExtNext \/ MetNext

SpecSweep == SweepInit /\ [][SweepNext]_vars

(***************************************************************************)
(* Claims about the sweep loops of the analysis.                           *)
(***************************************************************************)
\* An alpha of calculate_mobility.py or of panel (b) has just been dealt with.
AlphaDone ==
    /\ env.prog \in {"calculate_mobility", "plot_methodology"}
    /\ ghost.finished >= 1
    /\ \/ pc \in {"A86", "A123", "P251", "done"}
       \/ pc = "aborted" /\ ghost.fit # <<>>

\* The points of that alpha whose velocity is not NaN, in the order of the sweep.
ValidPoints == SelectSeq(ghost.log, LAMBDA e : e.v.kind = "num")

ValidFields == [k \in 1..Len(ValidPoints) |-> ValidPoints[k].h_dc]

ValidVelocities == [k \in 1..Len(ValidPoints) |-> ValidPoints[k].v.v]

\* The list that receives the mobility results of the program that runs.
MobilityEntries ==
    IF env.prog = "calculate_mobility" THEN heap["alpha_plot"] ELSE heap["legend_elements"]

\* C16: for one alpha, the mobility fit is made only when at least 2 points
\* have a velocity that is not NaN, and then on exactly those (h_dc, velocity)
\* pairs; in calculate_mobility.py a fit that converges adds (alpha, slope) to
\* the results; with fewer than 2 valid pairs no fit is made and no entry is
\* added for that alpha.
C16_MobilityPairs ==
    AlphaDone =>
        IF Len(ValidPoints) < 2
        THEN /\ ghost.fit = <<>>
             /\ Len(MobilityEntries) = ghost.before
        ELSE /\ Len(ghost.fit) = 1
             /\ ghost.fit[1].x = ValidFields
             /\ ghost.fit[1].y = ValidVelocities
             /\ ghost.fit[1].result.kind # "raise" \/ ghost.fit[1].result.exc = "RuntimeError"
             /\ env.prog = "calculate_mobility" =>
                  IF ghost.fit[1].result.kind = "num"
                  THEN /\ Len(heap["alpha_plot"]) = ghost.before + 1
                       /\ Len(heap["mu_plot"]) = ghost.before + 1
                       /\ heap["alpha_plot"][ghost.before + 1] = mob_alpha_values[ghost.finished]
                       /\ heap["mu_plot"][ghost.before + 1]
                            = LeastSquaresSlope(ValidFields, ValidVelocities)
                  ELSE /\ Len(heap["alpha_plot"]) = ghost.before
                       /\ Len(heap["mu_plot"]) = ghost.before
             /\ env.prog = "plot_methodology" =>
                  /\ Len(heap["legend_elements"]) = ghost.before + 1
                  /\ heap["legend_elements"][ghost.before + 1].fitted
                       = (ghost.fit[1].result.kind = "num")

\* calculate_mobility.py has fitted a non-zero mobility for the last alpha
\* through the two valid points of three, the middle one without a velocity,
\* after an alpha for which it reported none.
C16_Witness ==
    /\ pc = "done"
    /\ env.prog = "calculate_mobility"
    /\ ghost.before = 0
    /\ heap["saved"].alpha = <<mob_alpha_values[Len(mob_alpha_values)]>>
    /\ Len(ValidPoints) = 2
    /\ isnan(ghost.log[2].v)
    /\ heap["saved"].mu[1].num # 0

\* How far a sweep has got: it grows with every step of the loops.
SweepProgress ==
    2 * ghost.count
      + (IF env.prog = "extract_velocity" THEN 0 ELSE 3 * ghost.finished)
      + (IF pc \in {"A96", "A106", "P263", "P270", "done"} THEN 1 ELSE 0)

\* What holds of the sweeps of calculate_mobility.py and extract_velocity.py
\* at every step.
SweepState ==
    /\ pc # "aborted"
    /\ env.prog = "calculate_mobility" =>
         /\ \A k \in 1..Len(ghost.log) :
              isnan(ghost.log[k].v) = (ghost.log[k].cause # "success")
         /\ pc \in {"A96", "A106"} =>
              /\ heap["hdc_for_this_alpha"] = ValidFields
              /\ heap["velocities_for_this_alpha"] = ValidVelocities
         /\ ghost.count <= Len(mob_alpha_values) * Len(mob_H_DC_values)
         /\ pc \in {"A123", "done"} =>
              /\ ghost.count = Len(mob_alpha_values) * Len(mob_H_DC_values)
              /\ ghost.finished = Len(mob_alpha_values)
         /\ pc = "done" =>
              /\ Len(heap["saved"].alpha) = Len(heap["saved"].mu)
              /\ Len(heap["saved"].alpha) <= Len(mob_alpha_values)
    /\ env.prog = "extract_velocity" =>
         LET parsed == SelectSeq(ghost.log, LAMBDA e : e.cause # "bad name")
         IN  /\ Len(heap["velocities"]) = Len(parsed)
             /\ Len(heap["alpha_values"]) = Len(parsed)
             /\ \A k \in 1..Len(parsed) :
                  /\ heap["alpha_values"][k] = parsed[k].token.value
                  /\ isnan(heap["velocities"][k]) = (parsed[k].cause # "success")
                  /\ heap["velocities"][k].kind \in {"nan", "num"}
             /\ ghost.count <= env.n
             /\ pc \in {"E105", "done"} => ghost.count = env.n
             /\ pc = "done" => Len(heap["saved"].v_int) = Len(parsed)

\* C17: whatever the outcome of each point (file missing, no soliton, too few
\* samples in the window, fit failure, success), the sweeps of
\* calculate_mobility.py and extract_velocity.py never abort, every step takes
\* them further, they end having processed every point and every alpha, and a
\* point has no velocity (NaN, left out of the fit) exactly when it failed.
C17_SweepCompletes ==
    /\ []SweepState
    /\ [][SweepProgress' > SweepProgress]_vars

\* calculate_mobility.py has finished a sweep whose last alpha had a missing
\* file, a failed fit and a soliton at rest, velocity 0.
C17_Witness ==
    /\ pc = "done"
    /\ env.prog = "calculate_mobility"
    /\ ghost.count = Len(mob_alpha_values) * Len(mob_H_DC_values)
    /\ ghost.log[1].cause = "missing"
    /\ ghost.log[2].cause = "fit failure"
    /\ ghost.log[3].cause = "success"
    /\ ghost.log[3].v = Num(RInt(0))
    /\ heap["velocities_for_this_alpha"] = <<RInt(0)>>

(***************************************************************************)
(* The phase classifier of phase_diagram.py (lines 58-76).  The mean and   *)
(* the variance of the z column are exact fractions, NaN when a site is    *)
(* NaN; a comparison with NaN is False.                                    *)
(***************************************************************************)
ZColumn(S) == [i \in 1..Len(S) |-> S[i][3]]

\* np.mean(S[:, 2])
sz_mean(S) ==
    IF \E i \in 1..Len(S) : IsNaN(S[i]) THEN NaNResult
    ELSE Num(Rat(SeqSum(ZColumn(S)), Len(S) * Scale))

\* np.std(S[:, 2]) squared: the mean of the squares less the square of the mean
sz_var(S) ==
    IF \E i \in 1..Len(S) : IsNaN(S[i]) THEN NaNResult
    ELSE LET z == ZColumn(S)
         IN  Num(RSub(Rat(SeqSum([i \in 1..Len(z) |-> z[i] * z[i]]), Len(S) * Scale * Scale),
                      RMul(Rat(SeqSum(z), Len(S) * Scale), Rat(SeqSum(z), Len(S) * Scale))))

\* x > n/d
Exceeds(x, n, d) == x.kind = "num" /\ x.v.num * d > n * x.v.den

\* x < n/d
IsBelow(x, n, d) == x.kind = "num" /\ x.v.num * d < n * x.v.den

\* The bug of testing the spread before the mean.
analyze_phase_stdFirst(S) ==
    IF IsBelow(sz_var(S), 9, 25) THEN "SL"
    ELSE IF Exceeds(sz_mean(S), 19, 20) THEN "FM"
    ELSE "H"

\* lines 58-76: 0.95 is 19/20 and std < 0.6 is variance < 9/25
analyze_phase(S) ==
    IF Exceeds(sz_mean(S), 19, 20) THEN "FM"
    ELSE IF IsBelow(sz_var(S), 9, 25) THEN "SL"
    ELSE "H"

\* z components of the configurations classified: 1, 0.95, 0, -1, 3 and NaN
PhaseVecs ==
    { <<0, 0, Scale>>, <<0, 0, (19 * Scale) \div 20>>, <<0, 0, 0>>, <<0, 0, -Scale>>,
      <<0, 0, 3 * Scale>>, NaNVec }

PhaseBuffers == {"S_ground"}

PhaseInit ==
    \E N \in 1..MaxN :
      \E S \in [1..N -> PhaseVecs] :
        /\ pc = "F106"
        /\ heap = [b \in PhaseBuffers |-> S]
        /\ env = [N |-> N]
        /\ ret = <<>>
        /\ ghost = [S |-> S]

\* line 106: phase_name = analyze_phase(S_ground)
Phase_L106 ==
    /\ pc = "F106"
    /\ ret' = Append(ret, analyze_phase(heap["S_ground"]))
    /\ pc' = "done"
    /\ UNCHANGED <<heap, env, ghost>>

PhaseNext == Phase_L106

SpecPhase == PhaseInit /\ [][PhaseNext]_vars

(***************************************************************************)
(* Claims about the phase classifier.                                      *)
(***************************************************************************)
Finite(S) == \A i \in 1..Len(S) : ~IsNaN(S[i])

ZSum(S) == SeqSum([i \in 1..Len(S) |-> S[i][3]])

ZSquares(S) == SeqSum([i \in 1..Len(S) |-> S[i][3] * S[i][3]])

\* mean(S.z) > 0.95, with z in units of 1/Scale
MeanAbove095(S) == Finite(S) /\ 20 * ZSum(S) > 19 * Len(S) * Scale

\* std(S.z) < 0.6: N*sum(z^2) - sum(z)^2 < 0.36 * N^2
StdBelow06(S) ==
    Finite(S) /\ 25 * (Len(S) * ZSquares(S) - ZSum(S) * ZSum(S))
                   < 9 * Len(S) * Len(S) * Scale * Scale

RECURSIVE SumTo(_, _)
SumTo(f, n) == IF n = 0 THEN 0 ELSE f[n] + SumTo(f, n - 1)

\* The functional whose negative gradient is the field of lines 19-30 at
\* h_external = 0: -J S[i].S[i+1] + D (S[i] x S[i+1])_z + Da S[i]_z^2, summed
\* over the ring (in units of 1/u^2 for spins in units of 1/u).
Energy(S, J, D, Da) ==
    LET N == Len(S)
        nxt == roll(S, -1)
    IN  SumTo([i \in 1..N |->
                 (-J) * Dot(S[i], nxt[i])
                   + D * (S[i][1] * nxt[i][2] - S[i][2] * nxt[i][1])
                   + Da * S[i][3] * S[i][3]], N)

\* The state, the field and the derivative of the last completed call.
LastState == llg_rhs_S(ghost.S_in, env.N)

LastField == calculate_B_eff(LastState, env.J, env.D, env.Da, ZeroField)

LastDerivative == Reshape(ret[Len(ret)], env.N)

\* dE/dt = -sum_i B_eff[i] . dS[i]/dt for the field B and the derivative dS
EnergyRate(B, dS) == -SumTo([i \in 1..Len(B) |-> Dot(B[i], dS[i])], Len(B))

\* E(S + e) - E(S - e) = -2 sum_i B[i] . e[i] for every displacement e of one
\* component of one site: B is the negative gradient of Energy at S.
IsNegativeGradient(B, S, J, D, Da) ==
    \A i \in 1..Len(S), c \in 1..3 :
        \A up \in {[S EXCEPT ![i][c] = @ + 1]}, dn \in {[S EXCEPT ![i][c] = @ - 1]} :
            Energy(up, J, D, Da) - Energy(dn, J, D, Da) = (-2) * B[i][c]

\* C21: with alpha = 0 and no external field, the derivative llg_rhs returns
\* is at every site orthogonal to the effective field of the renormalized
\* state, B_eff[i] . dS[i]/dt = 0; B_eff is the negative gradient of the
\* exchange+DMI+anisotropy energy, whose rate of change is therefore zero.
C21_EnergyConserved ==
    (pc \in {"R69", "done"} /\ Len(ret) >= 1 /\ env.alpha = 0 /\ ~env.h_external_func) =>
        \A S \in {LastState}, dS \in {LastDerivative} :
            \A B \in {calculate_B_eff(S, env.J, env.D, env.Da, ZeroField)} :
                /\ \A i \in 1..env.N : Dot(B[i], dS[i]) = 0
                /\ IsNegativeGradient(B, S, env.J, env.D, env.Da)
                /\ EnergyRate(B, dS) = 0

\* An undamped chain with DMI and anisotropy and no external field has returned
\* a derivative that is not zero at any site, in a field that is not zero.
C21_Witness ==
    /\ pc = "done"
    /\ env.alpha = 0
    /\ ~env.h_external_func
    /\ env.N = MaxN
    /\ env.D # 0
    /\ env.Da # 0
    /\ \A i \in 1..env.N : LastDerivative[i] # ZeroVec /\ LastField[i] # ZeroVec

(***************************************************************************)
(* Ownership of the configuration by each run of the sweep                 *)
(* (run_mobility_scan.py lines 79-111, llg_engine.py lines 69-74).         *)
(***************************************************************************)
\* lines 85-86 as a value: every spin (0, 0, 1)
AllUp(N) == [i \in 1..N |-> <<0, 0, Scale>>]

\* One step of the stepper from the array y it holds at sample k: llg_rhs
\* renormalizes y in place and returns f, and the next array is y + dt*f.
\* (The singleton sets name a value once it is computed.)
AdvanceFrom(y, k, alpha, h_dc) ==
    CHOOSE next \in
        { [e \in 1..(3 * env.N) |-> S[e] + RoundDiv(DT_SAVE * f[e], Scale * Scale)] :
            S \in {Flatten(llg_rhs_S(y, env.N))},
            f \in {llg_rhs(t_eval[k], y, env.N, env.J, env.D, env.Da, alpha, env.gamma, TRUE,
                           [pulse_params |-> h_pulse_params(env.N), h_dc |-> h_dc])} } : TRUE

\* The state array the stepper holds when it evaluates the right-hand side for
\* sample k of a run at (alpha, h_dc) that starts from a fresh AllUp.
RECURSIVE FreshRunArray(_, _, _)
FreshRunArray(alpha, h_dc, k) ==
    IF k = 1 THEN Flatten(AllUp(env.N))
    ELSE CHOOSE next \in
             { AdvanceFrom(y, k - 1, alpha, h_dc) : y \in {FreshRunArray(alpha, h_dc, k - 1)} } :
             TRUE

\* The state recorded at sample k of such a run.
FreshRunSample(alpha, h_dc, k) ==
    CHOOSE rec \in { Flatten(llg_rhs_S(y, env.N)) : y \in {FreshRunArray(alpha, h_dc, k)} } : TRUE

\* C22: every run of the sweep starts from a freshly created all-spins-(0,0,1)
\* configuration and the same pulse parameters, whatever earlier runs did: the
\* array S_initial is never written by the right-hand-side evaluations, the
\* stepper starts on a copy of it, and the samples a run records are those of
\* a run at its (alpha, h_dc) made alone.
C22_RunsIndependent ==
    /\ pc \in {"M89", "M95", "V_rhs", "V_rec", "V_adv", "V_end", "M107", "M110"} =>
         heap[env.S_initial] = AllUp(env.N)
    /\ pc \in {"M95", "V_rhs", "V_rec", "V_adv", "V_end", "M107", "M110"} =>
         heap[env.h_args].pulse_params = h_pulse_params(env.N)
    /\ (pc = "V_rhs" /\ env.k = 1) => heap["y"] = Flatten(AllUp(env.N))
    /\ pc = "M110" =>
         \A r \in {ghost.runs[Len(ghost.runs)]} :
             \A k \in 1..Len(r.ys) : r.ys[k] = FreshRunSample(r.alpha, r.h_dc, k)

\* A run has been saved after an earlier run that failed and whose state array
\* had been moved away from the initial configuration in place.
C22_Witness ==
    /\ pc = "M110"
    /\ Len(ghost.runs) >= 2
    /\ env.N >= 2
    /\ LET prev == ghost.runs[Len(ghost.runs) - 1]
           last == ghost.runs[Len(ghost.runs)]
       IN  /\ ~prev.success
           /\ prev.ys[Len(prev.ys)] # Flatten(AllUp(env.N))
           /\ last.success
           /\ last.ys[Len(last.ys)] # last.ys[1]

(***************************************************************************)
(* The external field of the sweep as the right-hand side receives it      *)
(* (run_mobility_scan.py lines 38-60, llg_engine.py lines 77-78).          *)
(***************************************************************************)
\* time profile times space profile at site i (sites counted from 1 here)
PulseValue(t, i, p) ==
    RoundDiv((p.h0 * Gaussian(t - p.t0, p.tau)) * Gaussian((i - 1) - p.i0, p.sigma), Scale)

\* C23: the field h_total returns has, at every site, the pulse value (time
\* profile times space profile, largest in size at site i0) as its x-component,
\* 0 as its y-component and the bias h_dc as its z-component; evaluating it
\* leaves the parameter bundles as they were, so every evaluation at the same
\* time returns that same field.
C23_FieldComposition ==
    env.h_external_func =>
        /\ heap[env.h_args] = ghost.h_args
        /\ pc \in {"R82", "R85", "R86", "R88", "R90"} =>
             \A h \in {heap[env.h_ext]}, p \in {ghost.h_args.pulse_params} :
                 /\ Len(h) = env.N
                 /\ \A i \in 1..env.N :
                      /\ h[i] = <<PulseValue(env.t, i, p), 0, ghost.h_args.h_dc>>
                      /\ Abs(h[i][1]) <= Abs(h[p.i0 + 1][1])

\* The field has been evaluated a second time, at a time off the centre of the
\* pulse, on a chain where the pulse differs from site to site.
C23_Witness ==
    /\ pc = "R82"
    /\ env.h_external_func
    /\ env.call = 2
    /\ env.N = MaxN
    /\ env.t # ghost.h_args.pulse_params.t0
    /\ heap[env.h_ext][1][1] # heap[env.h_ext][2][1]
    /\ heap[env.h_ext][1][1] # 0
    /\ ghost.h_args.h_dc # 0

(***************************************************************************)
(* Core tracking and the velocity fit of calculate_mobility.py on a        *)
(* synthetic trajectory: a block of `width` sites of negative z on a       *)
(* background of positive z, its first site at start + (k-1)*shift at      *)
(* sample k, the samples dt apart, the block inside the chain throughout.  *)
(***************************************************************************)
SynthShifts == {-1, 0, 1, 2}

SynthBuffers == {"file"}

\* the sites (from 0) of the block at sample k
SynthBlock(g, k) ==
    (g.start + (k - 1) * g.shift)..(g.start + (k - 1) * g.shift + g.width - 1)

SynthInit ==
    \E N \in 1..(2 * MaxN), n \in 0..MaxTimes, converges \in BOOLEAN :
      \E width \in 1..2, start \in 0..(N - 1), shift \in SynthShifts, dt \in 1..2,
         t1 \in {T_START_FIT - 1, T_START_FIT + 1} :
        LET g == [width |-> width, start |-> start, shift |-> shift, dt |-> dt,
                  time_points |-> [k \in 1..n |-> t1 + (k - 1) * dt]]
            states == [k \in 1..n |->
                         [i \in 1..N |->
                             << -3, -4, IF (i - 1) \in SynthBlock(g, k) THEN -Scale ELSE Scale >>]]
        IN  /\ \A k \in 1..n : SynthBlock(g, k) \subseteq 0..(N - 1)
            /\ pc = "Y_track"
            /\ heap = [b \in SynthBuffers |->
                         [S_history |-> Stack([k \in 1..n |-> Flatten(states[k])], 3 * N),
                          time_points |-> g.time_points]]
            /\ env = [N |-> N, converges |-> converges]
            /\ ret = <<>>
            /\ ghost = g

\* calculate_mobility.py lines 39-59: the two tracked lists
Synth_Track ==
    /\ pc = "Y_track"
    /\ ret' = Append(ret, Track(heap["file"]))
    /\ pc' = "Y_fit"
    /\ UNCHANGED <<heap, env, ghost>>

\* calculate_mobility.py lines 28-74: the value calculate_velocity returns
Synth_Fit ==
    /\ pc = "Y_fit"
    /\ ret' = Append(ret, calculate_velocity(heap["file"], env.converges))
    /\ pc' = "done"
    /\ UNCHANGED <<heap, env, ghost>>

SynthNext ==
    \/ Synth_Track
    \/ Synth_Fit

SpecSynth == SynthInit /\ [][SynthNext]_vars

\* The velocity put into the trajectory: shift sites per dt.
InjectedVelocity == Rat(ghost.shift, ghost.dt)

\* The number of samples strictly inside the fit window.
SynthInWindow ==
    Cardinality({k \in 1..Len(ghost.time_points) : StrictlyInside(ghost.time_points[k])})

\* C24: on a block of fixed width moving by a constant number of sites per unit
\* time, every sample is tracked, the tracked position is the centre of the
\* block and so an exact linear function of the time with the injected
\* velocity as slope, and the velocity fitted (with 2 or more samples in the
\* window and a fit that converges) is the injected velocity.
C24_RoundTrip ==
    pc = "done" =>
        \A tr \in {ret[1]}, v \in {InjectedVelocity} :
            /\ tr.times_with_soliton = ghost.time_points
            /\ Len(tr.positions) = Len(ghost.time_points)
            /\ \A k \in 1..Len(tr.positions) :
                 /\ tr.positions[k] =
                      Rat(2 * (ghost.start + (k - 1) * ghost.shift) + ghost.width - 1, 2)
                 /\ tr.positions[k] =
                      RAdd(tr.positions[1],
                           RMul(v, RInt(ghost.time_points[k] - ghost.time_points[1])))
            /\ (SynthInWindow >= 2 /\ env.converges) => ret[2] = Num(v)

\* A velocity was fitted on a block of two sites that moved down the chain over
\* three or more samples inside the window, at a velocity that is no whole
\* number.
C24_Witness ==
    /\ pc = "done"
    /\ ghost.width = 2
    /\ ghost.shift < 0
    /\ ghost.dt = 2
    /\ SynthInWindow >= 3
    /\ ret[2].kind = "num"
    /\ ret[2].v = InjectedVelocity
    /\ ret[2].v.den = 2

(***************************************************************************)
(* The energy across one update step of find_ground_state (llg_engine.py   *)
(* lines 44-53).  Every configuration of unit spins is a normalized seed;  *)
(* the run starts from seeds that have unit length exactly on the grid,    *)
(* so that the energy before the step is exact.  The energy after the step *)
(* is that of S + dt_relax*B_eff divided by its exact norms, bounded from  *)
(* above with directed rounding.                                           *)
(***************************************************************************)
UnitSeeds == SpinVecs \cup { <<0, 0, -Scale>>, <<-((4 * Scale) \div 5), (3 * Scale) \div 5, 0>> }

DescentInit ==
    \E N \in 1..MaxN :
      \E raw \in [1..N -> UnitSeeds], J \in Couplings, D \in DmiStrengths, Da \in Anisotropies :
        \E dt \in RelaxSteps :
            /\ pc = "G42"
            /\ heap = [b \in GSBuffers |-> IF b = "S" THEN raw ELSE <<>>]
            /\ env = [N |-> N, J |-> J, D |-> D, Da |-> Da, max_steps |-> 2,
                      tolerance |-> 1, dt_num |-> dt[1], dt_den |-> dt[2], step |-> 0,
                      S |-> "S", B_eff |-> "", S_old |-> ""]
            /\ ret = <<>>
            /\ ghost = [seed |-> <<>>, prev |-> <<>>, ckpt |-> <<>>, last |-> <<>>,
                        updates |-> 0]

SpecDescent == DescentInit /\ [][GSNext]_vars

\* the smallest whole number not below a / b (b > 0)
CeilDiv(a, b) == -((-a) \div b)

\* square roots are taken of RootGain^2 * q, energies are in units of 1/EnergyGrain
RootGain == 2 * Scale

EnergyGrain == 4 * Scale * Scale

\* whole numbers lo <= RootGain * sqrt(q) <= hi, equal when the root is exact
RootBounds(q) ==
    CHOOSE b \in { [lo |-> r, hi |-> IF r * r = RootGain * RootGain * q THEN r ELSE r + 1] :
                   r \in {ISqrt(RootGain * RootGain * q)} } : TRUE

\* an upper bound, in units of 1/EnergyGrain, of a / (sqrt(qi) * sqrt(qj)),
\* ri and rj the bounds of the two roots
QuotientCeil(a, ri, rj) ==
    IF a >= 0
    THEN CeilDiv(CeilDiv(a * RootGain, ri.lo) * RootGain * EnergyGrain, rj.lo)
    ELSE -(((((-a) * RootGain) \div ri.hi) * RootGain * EnergyGrain) \div rj.hi)

\* an upper bound, in units of 1/EnergyGrain, of the energy of the
\* configuration v[i] / |v[i]|, for whole-number vectors v[i] # 0
EnergyCeil(v, J, D, Da) ==
    CHOOSE e \in
        { SumTo([i \in 1..Len(v) |->
                   QuotientCeil((-J) * Dot(v[i], nxt[i])
                                  + D * (v[i][1] * nxt[i][2] - v[i][2] * nxt[i][1]),
                                r[i], rnxt[i])
                     + CeilDiv(Da * v[i][3] * v[i][3] * EnergyGrain, NormSq(v[i]))],
                Len(v)) :
            nxt \in {roll(v, -1)},
            r \in {[i \in 1..Len(v) |-> RootBounds(NormSq(v[i]))]},
            rnxt \in {roll([i \in 1..Len(v) |-> RootBounds(NormSq(v[i]))], -1)} } : TRUE

\* every spin of the configuration has length 1 exactly
ExactUnit(S) == \A i \in 1..Len(S) : ~IsNaN(S[i]) /\ NormSq(S[i]) = Scale * Scale

\* the step leaves every spin where it was: v[i] is a positive multiple of old[i]
SameDirections(v, old) ==
    \A i \in 1..Len(v) : Cross(v[i], old[i]) = ZeroVec /\ Dot(v[i], old[i]) > 0

\* C25: with dt_relax = 0.05, one update step from a configuration of unit
\* spins does not increase the energy whose negative gradient is B_eff: the
\* energy of normalize(S + dt_relax*B_eff) is at most that of S (the two are
\* the same configuration at a fixed point).
C25_EnergyDescends ==
    (pc = "G53" /\ env.dt_num = 1 /\ env.dt_den = 20 /\ ExactUnit(ghost.prev)) =>
        \A v \in {heap[env.S]} :
            /\ \A i \in 1..env.N : ~IsNaN(v[i]) /\ NormSq(v[i]) > 0
            /\ \/ SameDirections(v, ghost.prev)
               \/ (Scale * Scale) * EnergyCeil(v, env.J, env.D, env.Da)
                    <= EnergyGrain * Energy(ghost.prev, env.J, env.D, env.Da)

\* A step has been taken from a configuration of three different unit spins,
\* with DMI and anisotropy, that strictly lowers the energy.
C25_Witness ==
    /\ pc = "G53"
    /\ env.dt_num = 1
    /\ env.dt_den = 20
    /\ env.N = MaxN
    /\ env.D # 0
    /\ env.Da # 0
    /\ ExactUnit(ghost.prev)
    /\ ghost.prev[1] # ghost.prev[2]
    /\ ghost.prev[2] # ghost.prev[3]
    /\ ~SameDirections(heap[env.S], ghost.prev)
    /\ (Scale * Scale) * EnergyCeil(heap[env.S], env.J, env.D, env.Da)
         < EnergyGrain * Energy(ghost.prev, env.J, env.D, env.Da)

(***************************************************************************)
(* The installation test (scripts/tests/test_installation.py) and the      *)
(* import system it exercises.  The repository is the tree of source       *)
(* files; the environment chooses which numeric packages are installed     *)
(* and what PYTHONPATH adds to sys.path.                                   *)
(***************************************************************************)
Packages == {"numpy", "scipy", "matplotlib"}

StdLib == {"os", "sys", "time"}

\* what PYTHONPATH adds: nothing, the folder scripts/core, or a folder of the
\* user that holds a copy of the engine named llg_core.py
PathExtras == {"", "scripts/core", "user"}

\* the modules and packages a directory holds
DirListing(d) ==
    CASE d = "root" -> {"scripts"}
      [] d = "scripts" -> {"analysis", "core", "runners", "tests", "visualization"}
      [] d = "scripts/core" -> {"llg_engine", "phase_diagram"}
      [] d = "scripts/tests" -> {"test_installation"}
      [] d = "user" -> {"llg_core"}
      [] OTHER -> {}

\* the modules a module imports when it is loaded
LoadImports(m) ==
    CASE m = "llg_engine" -> {"numpy"}
      [] m = "phase_diagram" -> {"numpy", "matplotlib", "os", "sys", "llg_core"}
      [] m = "llg_core" -> {"numpy"}
      [] OTHER -> {}

\* import name, as a top-level module: found in the standard library, among the
\* installed packages or in a directory of sys.path, and its own imports found
Resolves(name) ==
    /\ \/ name \in StdLib
       \/ name \in env.installed
       \/ \E d \in heap["sys.path"] : name \in DirListing(d)
    /\ \A i \in LoadImports(name) :
         i \in StdLib \/ i \in env.installed
           \/ \E d \in heap["sys.path"] : i \in DirListing(d)

\* from scripts.core import m: TRUE when no ImportError is raised
\* (ModuleNotFoundError is an ImportError)
FromCoreImport(m) ==
    /\ Resolves("scripts")
    /\ "core" \in DirListing("scripts")
    /\ m \in DirListing("scripts/core")
    /\ \A i \in LoadImports(m) : Resolves(i)

InstallBuffers == {"sys.path"}

\* lines 9-13 and line 136: the script is run; sys.path holds the script's
\* folder and PYTHONPATH, and line 13 puts the project root in front
InstallInit ==
    \E installed \in SUBSET Packages, extra \in PathExtras :
        /\ pc = "T113"
        /\ heap = [b \in InstallBuffers |-> {"root", "scripts/tests"} \cup ({extra} \ {""})]
        /\ env = [installed |-> installed, all_passed |-> TRUE, exit |-> -1]
        /\ ret = <<>>
        /\ ghost = [extra |-> extra]

\* lines 15-41 and line 113: all_passed &= test_imports()
Main_L113 ==
    /\ pc = "T113"
    /\ ret' = Append(ret, [test |-> "test_imports", passed |-> Packages \subseteq env.installed])
    /\ env' = [env EXCEPT !.all_passed = @ /\ (Packages \subseteq env.installed)]
    /\ pc' = "T49"
    /\ UNCHANGED <<heap, ghost>>

\* a return False of test_core_modules, and line 114: all_passed &= ...
CoreModulesReturn(passed, at) ==
    /\ ret' = Append(ret, [test |-> "test_core_modules", passed |-> passed, at |-> at])
    /\ env' = [env EXCEPT !.all_passed = @ /\ passed]
    /\ pc' = "T115"
    /\ UNCHANGED <<heap, ghost>>

\* lines 48-53: from scripts.core import llg_engine
Core_L49 ==
    /\ pc = "T49"
    /\ IF FromCoreImport("llg_engine")
       THEN pc' = "T56" /\ UNCHANGED <<heap, env, ret, ghost>>
       ELSE CoreModulesReturn(FALSE, "llg_engine")

\* lines 55-60: from scripts.core import phase_diagram
Core_L56 ==
    /\ pc = "T56"
    /\ IF FromCoreImport("phase_diagram")
       THEN pc' = "T63" /\ UNCHANGED <<heap, env, ret, ghost>>
       ELSE CoreModulesReturn(FALSE, "phase_diagram")

\* lines 62-69: from scripts.core import soliton_dynamics, then return True
Core_L63 ==
    /\ pc = "T63"
    /\ IF FromCoreImport("soliton_dynamics")
       THEN CoreModulesReturn(TRUE, "")
       ELSE CoreModulesReturn(FALSE, "soliton_dynamics")

\* lines 72-98 and line 115: all_passed &= test_basic_functionality(); its
\* import numpy (line 76) is not guarded, so without numpy the ImportError
\* leaves main
Main_L115 ==
    /\ pc = "T115"
    /\ IF "numpy" \in env.installed
       THEN /\ ret' = Append(ret, [test |-> "test_basic_functionality", passed |-> TRUE])
            /\ pc' = "T119"
            /\ UNCHANGED <<heap, env, ghost>>
       ELSE /\ pc' = "raised"
            /\ env' = [env EXCEPT !.exit = 1]
            /\ UNCHANGED <<heap, ret, ghost>>

\* lines 119-132 and line 136: sys.exit(main())
Main_L119 ==
    /\ pc = "T119"
    /\ env' = [env EXCEPT !.exit = IF env.all_passed THEN 0 ELSE 1]
    /\ pc' = "done"
    /\ UNCHANGED <<heap, ret, ghost>>

InstallNext ==
    \/ Main_L113
    \/ Core_L49
    \/ Core_L56
    \/ Core_L63
    \/ Main_L115
    \/ Main_L119

SpecInstall == InstallInit /\ [][InstallNext]_vars

\* The result test_core_modules returned.
CoreModulesResult == SelectSeq(ret, LAMBDA r : r.test = "test_core_modules")

\* C26: with the numeric packages installed, llg_engine, phase_diagram and
\* soliton_dynamics are all importable from scripts.core, test_core_modules
\* returns True and main returns exit code 0.
C26_CoreModulesImportable ==
    (pc = "done" /\ Packages \subseteq env.installed) =>
        /\ Len(CoreModulesResult) = 1
        /\ CoreModulesResult[1].passed
        /\ env.exit = 0

(***************************************************************************)
(* Order and bounds of the tracked samples (calculate_mobility.py lines    *)
(* 46-59, plot_methodology.py lines 100-113).                              *)
(***************************************************************************)
\* the fraction r is at least the whole number n
RatAtLeast(r, n) == r.num >= n * r.den

\* the fraction r is at most the whole number n
RatAtMost(r, n) == r.num <= n * r.den

\* C27: in every pipeline the two tracked lists have equal length, the tracked
\* times are time_points restricted, in the original order, to the samples
\* with a core, and every tracked position lies between the smallest and the
\* largest core index of its sample, hence within 0..N-1, also for a core that
\* wraps across the periodic boundary.
C27_TrackedInBounds ==
    \A p \in 1..Len(ghost.tracked) :
        \A tr \in {ghost.tracked[p]}, idx \in {CoreSamples} :
            /\ Len(tr.positions) = Len(tr.times_with_soliton)
            /\ Len(tr.times_with_soliton) = Len(idx)
            /\ \A n \in 1..Len(idx) :
                 /\ tr.times_with_soliton[n] = ghost.time_points[idx[n]]
                 /\ n > 1 => idx[n - 1] < idx[n]
                 /\ n <= Len(tr.positions) =>
                      /\ \E lo, hi \in CoreSet(idx[n]) :
                           /\ \A c \in CoreSet(idx[n]) : lo <= c /\ c <= hi
                           /\ RatAtLeast(tr.positions[n], lo)
                           /\ RatAtMost(tr.positions[n], hi)
                      /\ RatAtLeast(tr.positions[n], 0)
                      /\ RatAtMost(tr.positions[n], env.N - 1)

\* The pipelines have tracked a chain of three or more sites with a sample
\* whose core wraps across the boundary (sites 0 and N-1), a sample whose core
\* is the last site and a sample without a core.
C27_Witness ==
    /\ pc = "done"
    /\ Len(ghost.tracked) = 3
    /\ env.N >= 3
    /\ \E k \in 1..Len(ghost.time_points) : CoreSet(k) = {0, env.N - 1}
    /\ \E k \in 1..Len(ghost.time_points) : CoreSet(k) = {env.N - 1}
    /\ \E k \in 1..Len(ghost.time_points) : CoreSet(k) = {}
    /\ Len(ghost.tracked[1].positions) = Len(ghost.time_points) - 1

(***************************************************************************)
(* Pairing of the result lists (extract_velocity.py lines 42-107,          *)
(* calculate_mobility.py lines 86-103).                                    *)
(***************************************************************************)
\* The files of extract_velocity.py whose name gave an alpha, in order.
ParsedFiles == SelectSeq(ghost.log, LAMBDA e : e.cause # "bad name")

\* The velocity of a logged point: the slope of the line through the tracked
\* samples of its trajectory inside the window when the point succeeded, NaN
\* otherwise.
LoggedVelocity(e) ==
    IF e.cause = "success"
    THEN CHOOSE v \in
             { Num(LeastSquaresSlope(Masked(tr.times_with_soliton, mask),
                                     Masked(tr.positions, mask))) :
                 tr \in {Track(e.data)},
                 mask \in {FitMask(Track(e.data).times_with_soliton)} } : TRUE
    ELSE NaNResult

\* C28: after every processed file of extract_velocity.py the lists
\* alpha_values and velocities have equal length and entry k of each comes
\* from the k-th file whose name gave an alpha (a file with an unparsable name
\* adds to neither); in calculate_mobility.py the lists hdc_for_this_alpha and
\* velocities_for_this_alpha have equal length and entry k of each comes from
\* the k-th point of this alpha that has a velocity.
C28_ListsPaired ==
    /\ (env.prog = "extract_velocity" /\ pc \in {"E46", "E105", "done"}) =>
         \A files \in {ParsedFiles} :
             /\ Len(heap["alpha_values"]) = Len(heap["velocities"])
             /\ Len(heap["alpha_values"]) = Len(files)
             /\ \A k \in 1..Len(files) :
                  /\ heap["alpha_values"][k] = files[k].token.value
                  /\ heap["velocities"][k] = LoggedVelocity(files[k])
    /\ (env.prog = "calculate_mobility" /\ pc \in {"A96", "A106"}) =>
         \A points \in {SelectSeq(ghost.log, LAMBDA e : e.cause = "success")} :
             /\ Len(heap["hdc_for_this_alpha"]) = Len(heap["velocities_for_this_alpha"])
             /\ Len(heap["hdc_for_this_alpha"]) = Len(points)
             /\ \A k \in 1..Len(points) :
                  /\ heap["hdc_for_this_alpha"][k] = points[k].h_dc
                  /\ Num(heap["velocities_for_this_alpha"][k]) = LoggedVelocity(points[k])

\* extract_velocity.py has gone through a file without a velocity and then a
\* file with a velocity that is not zero, for a different alpha.
C28_Witness ==
    /\ env.prog = "extract_velocity"
    /\ pc = "E105"
    /\ Len(ghost.log) = 2
    /\ ghost.log[1].cause = "too few"
    /\ ghost.log[2].cause = "success"
    /\ ghost.log[1].token.value # ghost.log[2].token.value
    /\ heap["velocities"][2].kind = "num"
    /\ heap["velocities"][2].v.num # 0
    /\ isnan(heap["velocities"][1])

(***************************************************************************)
(* The uniform configuration of the sweep, every spin (0, 0, 1)            *)
(* (run_mobility_scan.py lines 85-86), under llg_rhs and under one update  *)
(* step of find_ground_state.  The right-hand side is evaluated at the     *)
(* centre of the pulse and long after it, when the pulse has died out and  *)
(* the field is the bias along z alone.                                    *)
(***************************************************************************)
PulseTimes == {2, 9}

StationaryRhsInit ==
    \E N \in 1..MaxN, J \in Couplings, D \in DmiStrengths, Da \in Anisotropies :
      \E alpha \in Alphas, gamma \in Gammas, t \in PulseTimes, has_func \in BOOLEAN :
        \E h_dc \in (IF has_func THEN BiasFields ELSE {0}) :
            LET kwargs == [pulse_params |-> h_pulse_params(N), h_dc |-> h_dc]
            IN  /\ pc = "R69"
                /\ heap = [b \in RhsBuffers |->
                             IF b = "S_flat" THEN Flatten(AllUp(N))
                             ELSE IF b = "h_args" /\ has_func THEN kwargs
                             ELSE <<>>]
                /\ env = [N |-> N, J |-> J, D |-> D, Da |-> Da, alpha |-> alpha,
                          gamma |-> gamma, t |-> t, call |-> 1,
                          S_flat |-> "S_flat", h_external_func |-> has_func,
                          h_args |-> "h_args", h_scalar |-> FALSE,
                          S |-> "", norms |-> "", h_ext |-> "", B_eff |-> "",
                          precession_term |-> "", damping_term |-> "", dSdt |-> ""]
                /\ ret = <<>>
                /\ ghost = [S_flat |-> Flatten(AllUp(N)), S_in |-> Flatten(AllUp(N)),
                            h_args |-> IF has_func THEN kwargs ELSE <<>>]

StationaryInit == StationaryRhsInit \/ DescentInit

StationaryNext == RhsNext \/ GSNext

SpecStationary == StationaryInit /\ [][StationaryNext]_vars

\* llg_rhs is the function that runs (find_ground_state otherwise)
InRhs == "alpha" \in DOMAIN env

\* the x-component of the external field llg_rhs was given at site i
FieldX(i) == IF env.h_external_func THEN h_total(env.t, env.N, ghost.h_args)[i][1] ELSE 0

\* C29: for the uniform configuration, every spin (0, 0, 1), llg_rhs returns
\* the zero derivative at every site where the external field has no x- or
\* y-component (no field, or the bias along z once the pulse has died out),
\* whatever J, D, Da, alpha and gamma, and a derivative that is not zero where
\* the pulse acts; one update step of find_ground_state leaves the uniform
\* configuration as it is when 2*J - 2*Da > -1/dt_relax.
C29_UniformStationary ==
    /\ (InRhs /\ pc \in {"R69", "done"} /\ Len(ret) >= 1) =>
         \A dS \in {Reshape(ret[Len(ret)], env.N)} :
             /\ heap[env.S_flat] = Flatten(AllUp(env.N))
             /\ \A i \in 1..env.N : (dS[i] = ZeroVec) <=> (FieldX(i) = 0)
    /\ (~InRhs /\ pc = "G56" /\ ghost.prev = AllUp(env.N)
          /\ env.dt_den + env.dt_num * (2 * env.J - 2 * env.Da) > 0) =>
         heap[env.S] = AllUp(env.N)

\* llg_rhs has returned the zero derivative for a damped uniform chain with
\* exchange, DMI and anisotropy in the bias field along z, after the pulse.
C29_Witness ==
    /\ InRhs
    /\ pc = "done"
    /\ env.N = MaxN
    /\ env.alpha # 0
    /\ env.D # 0
    /\ env.Da # 0
    /\ env.h_external_func
    /\ ghost.h_args.h_dc # 0
    /\ \A i \in 1..env.N : FieldX(i) = 0
    /\ \A k \in 1..Len(ret[1]) : ret[1][k] = 0

(***************************************************************************)
(* The three copies of the pipeline on the same stored trajectory.         *)
(***************************************************************************)
\* the tracked samples of pipeline p that lie strictly inside the fit window
TrackedInWindow(p) ==
    LET tr == ghost.tracked[p]
        keep == { k \in 1..Len(tr.times_with_soliton) :
                    /\ tr.times_with_soliton[k] > T_START_FIT
                    /\ tr.times_with_soliton[k] < T_END_FIT }
    IN  [times |-> SelectSeq(tr.times_with_soliton,
                             LAMBDA t : t > T_START_FIT /\ t < T_END_FIT),
         positions |-> [n \in 1..Cardinality(keep) |->
                           tr.positions[CHOOSE k \in keep :
                                          Cardinality({ j \in keep : j <= k }) = n]]]

\* the slope of the least-squares line through the in-window samples of
\* pipeline p, or no value when there are fewer than two or the fit fails
WindowFit(p) ==
    LET w == TrackedInWindow(p)
    IN  IF Len(w.times) < 2 \/ ~env.converges THEN NaNResult
        ELSE Num(LeastSquaresSlope(w.times, w.positions))

\* C30: on a stored trajectory, calculate_velocity, calculate_velocity_with_error
\* and the loop body of extract_velocity.py track the same samples, keep the
\* same in-window samples, and report the same outcome: no velocity from any
\* of them, or from each the slope of the line through those samples.
C30_PipelinesAgree ==
    (pc = "done" /\ Len(ret) = 3) =>
        /\ ghost.tracked[1] = ghost.tracked[2]
        /\ ghost.tracked[2] = ghost.tracked[3]
        /\ \A p \in 1..3 : Velocities[p] = WindowFit(1)
        /\ (Velocities[1].kind = "num") =>
              /\ ret[2].time_data = ghost.tracked[1].times_with_soliton
              /\ ret[2].position_data = ghost.tracked[1].positions

\* All three pipelines have fitted a trajectory with a sample on each end of
\* the window, a sample without a core and a core of two sites.
C30_Witness ==
    /\ pc = "done"
    /\ Len(ret) = 3
    /\ \A p \in 1..3 : Velocities[p].kind = "num"
    /\ T_START_FIT \in { ghost.time_points[k] : k \in 1..Len(ghost.time_points) }
    /\ Len(ghost.tracked[3].times_with_soliton) < Len(ghost.time_points)
    /\ Len(TrackedInWindow(3).times) < Len(ghost.tracked[3].times_with_soliton)
    /\ \E k \in 1..Len(ghost.tracked[1].positions) : ghost.tracked[1].positions[k] # RInt(0)

(***************************************************************************)
(* The repository as a whole: any one of the programs is run.              *)
(***************************************************************************)
Init ==
    \/ BeffInit
    \/ GSInit
    \/ DescentInit
    \/ RhsInit
    \/ StationaryRhsInit
    \/ ScanInit
    \/ VelInit
    \/ SynthInit
    \/ SweepInit
    \/ PhaseInit
    \/ InstallInit

Next ==
    \/ BeffNext
    \/ GSNext
    \/ RhsNext
    \/ ScanNext
    \/ VelNext
    \/ SynthNext
    \/ SweepNext
    \/ PhaseNext
    \/ InstallNext

Spec == Init /\ [][Next]_vars

====
